---- MODULE Spec2Model ----
(***************************************************************************)
(* Verification model of airtame/vpu-decoder: the PackQueue, the VP8       *)
(* stream parser that produces packs, the VPUDecoder driver that consumes  *)
(* them, and the H.264 stream parser with the VPUH264Decoder behind it.    *)
(***************************************************************************)
EXTENDS Integers, Sequences, FiniteSets, TLC

\* Bounds of the model (not program constants): the packs pushed in a run,
\* the chunks the H.264 producer pushes in a run, and the ends of sequence it
\* marks in a run.
MaxPacks == 2
MaxChunks == 2
MaxFlushes == 1
MaxBuffers == 3
MaxScanBytes == 5

\* VPUDecoder::m_display_frames as the player constructs it.
m_display_frames == 2

VARIABLES
    parser,     \* which stream parser the player attached to the queue
    queue,      \* PackQueue: [m_packs, m_number_of_packs_popped]
    m_geometry, \* VP8StreamParser::m_geometry
    m_session,  \* VPUDecoder::m_session (NoSession models the null pointer)
    m_frames,   \* VPUDecoder::m_frames (VPUFrameBuffers)
    produced,   \* history: numbers of packs pushed, chunks pushed and ends
                \* of sequence marked so far
    fed,        \* history: the chunk written to a session last before the
                \* latest driver call, then the chunks that call wrote
    last,       \* history: what the last driver call saw and did
    h264_parser,  \* H264StreamParser: m_synchronized, the SPS and PPS tables
                  \* and the activated ids
    h264_decoder, \* VPUH264Decoder: m_will_be_reordering, m_buffers, m_session
    h264_last,    \* history: the last call of the H.264 parser, the buffer
                  \* it was given, the parser before it and what became of
                  \* every NAL
    bitstream     \* an H264Bitstream: m_data, m_data_size, m_bits_available
                  \* and m_bits, with the buffer it was given

qvars == <<parser, queue, m_geometry, produced>>
dvars == <<m_session, m_frames, fed, last>>
hvars == <<h264_parser, h264_decoder, h264_last, bitstream>>
vars == <<parser, queue, m_geometry, m_session, m_frames, produced, fed, last,
          h264_parser, h264_decoder, h264_last, bitstream>>

Min(a, b) == IF a < b THEN a ELSE b

(***************************************************************************)
(* codec_common.hpp                                                        *)
(***************************************************************************)
FrameGeometryDefault ==
    [m_padded_width |-> 0, m_padded_height |-> 0, m_true_width |-> 0,
     m_true_height |-> 0, m_crop_left |-> 0, m_crop_top |-> 0]

Pad16(x) == LET p == (x \div 16) * 16 IN IF p < x THEN p + 16 ELSE p

FrameGeometry(true_width, true_height) ==
    [m_padded_width |-> Pad16(true_width), m_padded_height |-> Pad16(true_height),
     m_true_width |-> true_width, m_true_height |-> true_height,
     m_crop_left |-> 0, m_crop_top |-> 0]

(***************************************************************************)
(* pack_queue.hpp                                                          *)
(***************************************************************************)
\* VideoChunk; seq is a history field: the position at which the chunk was
\* pushed into its pack.
VideoChunk(data, description, seq) ==
    [data |-> data, size |-> Len(data), free_callback |-> 0,
     description |-> description, seq |-> seq]

\* Pack(); id and pushed are history fields: the pack's push number and the
\* number of chunks pushed into it so far.
Pack(id) ==
    [m_chunks |-> <<>>, m_geometry |-> FrameGeometryDefault,
     m_maximum_number_of_reference_frames |-> 0, m_codec_type |-> "NONE",
     m_can_reopen_decoding |-> FALSE, m_can_be_dropped |-> FALSE,
     m_is_complete |-> FALSE, m_needs_reordering |-> FALSE,
     m_needs_flushing |-> FALSE, m_decoded |-> FALSE,
     id |-> id, pushed |-> 0]

EmptyQueue == [m_packs |-> <<>>, m_number_of_packs_popped |-> 0]

empty(q) == q.m_packs = <<>>

front(q) == q.m_packs[1]

back(q) == q.m_packs[Len(q.m_packs)]

\* Writes through the reference back() returns.
SetBack(q, pack) == [q EXCEPT !.m_packs[Len(q.m_packs)] = pack]

has_pack_for_consumption(q) ==
    IF empty(q) THEN FALSE ELSE front(q).m_is_complete

has_pack_for_feeding(q) ==
    IF empty(q) THEN FALSE ELSE front(q).m_chunks # <<>>

has_pack_for(q, purpose) ==
    IF purpose = "CONSUMPTION"
    THEN has_pack_for_consumption(q)
    ELSE has_pack_for_feeding(q)

push_new_pack_keeps_back_open(q, id) ==
    [q EXCEPT !.m_packs = Append(q.m_packs, Pack(id))]

push_new_pack(q, id) ==
    LET closed == IF ~empty(q)
                  THEN SetBack(q, [back(q) EXCEPT !.m_is_complete = TRUE])
                  ELSE q
    IN [closed EXCEPT !.m_packs = Append(closed.m_packs, Pack(id))]

push_chunk_at_front(q, data, description) ==
    IF empty(q) THEN q
    ELSE LET b == back(q)
         IN SetBack(q, [b EXCEPT
                !.m_chunks = <<VideoChunk(data, description, b.pushed + 1)>> \o b.m_chunks,
                !.pushed = b.pushed + 1])

push_chunk(q, data, description) ==
    IF empty(q) THEN q
    ELSE LET b == back(q)
         IN SetBack(q, [b EXCEPT
                !.m_chunks = Append(b.m_chunks,
                                    VideoChunk(data, description, b.pushed + 1)),
                !.pushed = b.pushed + 1])

\* The callback is run at once when there is no chunk to carry it (no state
\* of the queue changes); otherwise the last chunk of the back pack owns it.
attach_free_callback(q, callback) ==
    IF (empty(q) \/ back(q).m_chunks = <<>>)
       \/ back(q).m_chunks[Len(back(q).m_chunks)].free_callback # 0
    THEN q
    ELSE LET b == back(q)
         IN SetBack(q, [b EXCEPT !.m_chunks[Len(b.m_chunks)].free_callback = callback])

\* Whether attach_free_callback runs the callback before it returns: the
\* branch without a chunk to carry it, and if (callback) callback().
callback_called(q, callback) ==
    /\ (empty(q) \/ back(q).m_chunks = <<>>)
       \/ back(q).m_chunks[Len(back(q).m_chunks)].free_callback # 0
    /\ callback # 0

pop_chunk(q) == [q EXCEPT !.m_packs[1].m_chunks = Tail(@)]

mark_front_as_decoded(q) == [q EXCEPT !.m_packs[1].m_decoded = TRUE]

pop_front(q) ==
    [m_packs |-> Tail(q.m_packs),
     m_number_of_packs_popped |-> q.m_number_of_packs_popped + 1]

(***************************************************************************)
(* vp8_stream_parser.cpp                                                   *)
(***************************************************************************)
\* ivf.h is not part of the sources at hand; the container's documented
\* magic number and FourCC.
IVF_MAGIC_NUMBER == <<68, 75, 73, 70>>
IVF_VP8_FOURCC == <<86, 80, 56, 48>>

Zeros(n) == [i \in 1..n |-> 0]

\* Little-endian store of the low 16 bits of v at byte offset off (0-based).
StoreU16(bytes, off, v) ==
    [bytes EXCEPT ![off + 1] = v % 256, ![off + 2] = (v \div 256) % 256]

\* Little-endian load of 16 bits at byte offset off (0-based).
LoadU16(bytes, off) == bytes[off + 1] + 256 * bytes[off + 2]

\* The 32-byte IVF sequence header: both 16-bit stores go to offset 12.
IvfSequenceHeader(width, height) ==
    LET h0 == Zeros(32)
        h1 == [i \in 1..32 |-> IF i <= 4 THEN IVF_MAGIC_NUMBER[i] ELSE h0[i]]
        h2 == StoreU16(h1, 6, 32)
        h3 == [i \in 1..32 |-> IF i \in 9..12 THEN IVF_VP8_FOURCC[i - 8] ELSE h2[i]]
        h4 == StoreU16(h3, 12, width)
    IN StoreU16(h4, 12, height)

push_sequence_header_skipped(q, width, height) == q

push_sequence_header(q, width, height) ==
    attach_free_callback(
        push_chunk(q, IvfSequenceHeader(width, height), "IVF sequence header"),
        1)

\* The 12-byte IVF frame header: 32-bit little-endian size, zeroed timestamp.
IvfFrameHeader(size) ==
    [i \in 1..12 |-> IF i = 1 THEN size % 256
                     ELSE IF i = 2 THEN (size \div 256) % 256
                     ELSE IF i = 3 THEN (size \div 65536) % 256
                     ELSE IF i = 4 THEN (size \div 16777216) % 256
                     ELSE 0]

push_frame(q, buffer, description) ==
    LET q1 == attach_free_callback(
                  push_chunk(q, IvfFrameHeader(Len(buffer)), "IVF frame header"), 2)
    IN attach_free_callback(push_chunk(q1, buffer, description), 3)

\* Whether push_frame runs the callback of the buffer, 3, before it returns.
frame_callback_called(q, buffer, description) ==
    callback_called(
        push_chunk(attach_free_callback(
                       push_chunk(q, IvfFrameHeader(Len(buffer)), "IVF frame header"), 2),
                   buffer, description),
        3)

\* Bits of the first three bytes (RFC 6386 9.1) as the code reads them.
Vp8Keyframe(buffer) == buffer[1] % 2 = 0

Vp8Version(buffer) == (buffer[1] \div 2) % 8

Vp8ShowFrame(buffer) == (buffer[1] \div 16) % 2 = 1

Vp8Description(buffer) ==
    <<"VP8", Vp8ShowFrame(buffer), Vp8Keyframe(buffer), Vp8Version(buffer)>>

Vp8CommonFields_leaves_pack_open(pack, geometry) ==
    [pack EXCEPT !.m_codec_type = "VP8", !.m_geometry = geometry,
                 !.m_maximum_number_of_reference_frames = 4,
                 !.m_can_be_dropped = FALSE,
                 !.m_needs_reordering = FALSE, !.m_needs_flushing = FALSE]

Vp8CommonFields_one_reference_frame(pack, geometry) ==
    [pack EXCEPT !.m_codec_type = "VP8", !.m_geometry = geometry,
                 !.m_maximum_number_of_reference_frames = 1,
                 !.m_can_be_dropped = FALSE, !.m_is_complete = TRUE,
                 !.m_needs_reordering = FALSE, !.m_needs_flushing = FALSE]

\* The fields every VP8 pack gets after its frame was pushed.
Vp8CommonFields(pack, geometry) ==
    [pack EXCEPT !.m_codec_type = "VP8", !.m_geometry = geometry,
                 !.m_maximum_number_of_reference_frames = 4,
                 !.m_can_be_dropped = FALSE, !.m_is_complete = TRUE,
                 !.m_needs_reordering = FALSE, !.m_needs_flushing = FALSE]

\* VP8StreamParser::process_buffer on the parser state [queue, geometry]:
\* the result is the new [queue, geometry, pushed, freed], pushed telling
\* whether a pack was pushed and freed whether the callback of the buffer
\* was run before the return.
vp8_process_buffer(q, geometry, buffer, id) ==
    LET unchanged == [queue |-> q, geometry |-> geometry, pushed |-> FALSE,
                      freed |-> FALSE]
    IN IF Len(buffer) < 3 THEN unchanged
       ELSE IF Vp8Keyframe(buffer)
       THEN IF Len(buffer) < 10 THEN unchanged
            ELSE IF buffer[4] # 157 \/ buffer[5] # 1 \/ buffer[6] # 42 THEN unchanged
            ELSE LET width == LoadU16(buffer, 6) % 16384
                     height == LoadU16(buffer, 8) % 16384
                     q1 == push_new_pack(q, id)
                     q2 == SetBack(q1, [back(q1) EXCEPT !.m_can_reopen_decoding = TRUE])
                     differs == geometry.m_true_width # width
                                \/ geometry.m_true_height # height
                     q3 == IF differs
                           THEN push_sequence_header(q2, geometry.m_true_width,
                                                     geometry.m_true_height)
                           ELSE q2
                     g == IF differs THEN FrameGeometry(width, height) ELSE geometry
                     q4 == push_frame(q3, buffer, Vp8Description(buffer))
                 IN [queue |-> SetBack(q4, Vp8CommonFields(back(q4), g)),
                     geometry |-> g, pushed |-> TRUE,
                     freed |-> frame_callback_called(q3, buffer, Vp8Description(buffer))]
       ELSE LET q1 == push_new_pack(q, id)
                q2 == SetBack(q1, [back(q1) EXCEPT !.m_can_reopen_decoding = FALSE])
                q4 == push_frame(q2, buffer, Vp8Description(buffer))
            IN [queue |-> SetBack(q4, Vp8CommonFields(back(q4), geometry)),
                geometry |-> geometry, pushed |-> TRUE,
                freed |-> frame_callback_called(q2, buffer, Vp8Description(buffer))]

\* Frames given to the VP8 parser: key frames of 320x240 and 640x480, one
\* with the scale bits set over a 320 wide picture, an inter frame, a key
\* frame with a wrong start code, a truncated key frame, a two byte buffer.
\* All have show_frame set, which the parser requires.
Vp8Buffers ==
    { <<16, 0, 0, 157, 1, 42, 64, 1, 240, 0>>,
      <<16, 0, 0, 157, 1, 42, 128, 2, 224, 1>>,
      <<16, 0, 0, 157, 1, 42, 64, 65, 240, 0>>,
      <<17, 0, 0>>,
      <<16, 0, 0, 157, 1, 43, 64, 1, 240, 0>>,
      <<16, 0, 0, 157>>,
      <<17, 0>> }

(***************************************************************************)
(* vpu_frame_buffers.cpp, vpu_decoding_session.cpp                         *)
(***************************************************************************)
NoSession ==
    [open |-> FALSE, m_codec_type |-> "NONE", m_frame_geometry |-> FrameGeometryDefault,
     m_number_of_reference_frame_buffers |-> 0,
     m_number_of_display_frame_buffers |-> 0, m_reordering |-> FALSE,
     m_initial_info_retrieved |-> FALSE]

\* VPUFrameBuffers: the display reserve and the number of frames whose
\* given_for_display flag is set.
NoFrames == [m_number_of_display_frame_buffers |-> 0, given |-> 0]

VPUFrameBuffers_has_frame_for_decoding(f) ==
    f.given < f.m_number_of_display_frame_buffers

\* reserve() sets the counts and rebuilds the frames, none given for display.
reserve(f, number_of_display_frame_buffers) ==
    [m_number_of_display_frame_buffers |-> number_of_display_frame_buffers,
     given |-> 0]

frame_to_be_given_for_display(f) == [f EXCEPT !.given = @ + 1]

mark_frame_as_returned(f) == [f EXCEPT !.given = @ - 1]

VPUDecodingSession_has_frame_for_decoding(f) ==
    IF f.m_number_of_display_frame_buffers # 0
    THEN VPUFrameBuffers_has_frame_for_decoding(f)
    ELSE TRUE

\* open_for_video: no session when the picture has more than 8160
\* macroblocks, the codec is not a video codec or the VPU refuses.
open_for_video(codec_type, frame_geometry, reference_frames, display_frames, reordering, open_decoder_ok) ==
    IF (frame_geometry.m_padded_width \div 16) * (frame_geometry.m_padded_height \div 16) > 8160
    THEN NoSession
    ELSE IF codec_type \notin {"H264", "VP8"} THEN NoSession
    ELSE IF ~open_decoder_ok THEN NoSession
    ELSE [open |-> TRUE, m_codec_type |-> codec_type,
          m_frame_geometry |-> frame_geometry,
          m_number_of_reference_frame_buffers |-> reference_frames,
          m_number_of_display_frame_buffers |-> display_frames,
          m_reordering |-> reordering, m_initial_info_retrieved |-> FALSE]

get_number_of_frame_buffers(s) ==
    s.m_number_of_reference_frame_buffers + s.m_number_of_display_frame_buffers

\* VPUDecodingSession::feed: vpu_ok is the VPU library's answer, and
\* num_free_bytes the free space it reports in the bitstream buffer.
feed(size, vpu_ok, num_free_bytes) ==
    IF ~vpu_ok THEN [ok |-> FALSE, size_fed |-> 0]
    ELSE IF num_free_bytes = 0 THEN [ok |-> TRUE, size_fed |-> 0]
    ELSE [ok |-> TRUE, size_fed |-> Min(size, num_free_bytes)]

\* What wait_for_decode can return.
WaitStatuses ==
    { {"ERROR", "DECODE_TIMEOUT"}, {"ERROR"} }
    \cup SUBSET {"NOT_ENOUGH_INPUT_DATA", "OUTPUT_DECODED", "FRAME_GIVEN_FOR_DISPLAY"}

\* What the VPU does in one decode_video call: start tells how
\* start_video_decoding fares, status what wait_for_decode reports.
DecodeOutcomes ==
    { [start |-> "no_initial_info", status |-> {"ERROR"}],
      [start |-> "fails", status |-> {"ERROR"}] }
    \cup { [start |-> "ok", status |-> st] : st \in WaitStatuses }

\* decode_video: [status, session, frames, frame], frame telling whether an
\* output frame was filled in.
decode_video(s, f, vpu) ==
    IF ~VPUDecodingSession_has_frame_for_decoding(f)
    THEN [status |-> {"NO_FREE_OUTPUT_BUFFER"}, session |-> s, frames |-> f,
          frame |-> FALSE]
    ELSE IF ~s.m_initial_info_retrieved /\ vpu.start = "no_initial_info"
    THEN [status |-> {"ERROR"}, session |-> s, frames |-> f, frame |-> FALSE]
    ELSE LET s1 == [s EXCEPT !.m_initial_info_retrieved = TRUE]
             f1 == IF s.m_initial_info_retrieved THEN f
                   ELSE reserve(f, s.m_number_of_display_frame_buffers)
         IN IF vpu.start # "ok" \/ ~VPUDecodingSession_has_frame_for_decoding(f1)
            THEN [status |-> {"ERROR"}, session |-> s1, frames |-> f1, frame |-> FALSE]
            ELSE IF "FRAME_GIVEN_FOR_DISPLAY" \in vpu.status
            THEN [status |-> vpu.status, session |-> s1,
                  frames |-> frame_to_be_given_for_display(f1), frame |-> TRUE]
            ELSE [status |-> vpu.status, session |-> s1, frames |-> f1,
                  frame |-> FALSE]

(***************************************************************************)
(* vpu_decoder.cpp                                                         *)
(***************************************************************************)
has_frame_for_decoding(s, f) ==
    IF s.open THEN VPUDecodingSession_has_frame_for_decoding(f) ELSE TRUE

check_for_reopening(s, pack) ==
    IF ~s.open THEN TRUE
    ELSE IF pack.m_codec_type # s.m_codec_type THEN TRUE
    ELSE IF pack.m_maximum_number_of_reference_frames + m_display_frames
            # get_number_of_frame_buffers(s) THEN TRUE
    ELSE IF pack.m_needs_reordering # s.m_reordering THEN TRUE
    ELSE pack.m_geometry # s.m_frame_geometry

\* What the VPU does during a flush_step: eos_ok is feed_end_of_stream's
\* result. Flushing never decodes and, unless it reports nothing at all,
\* gives a frame: the two conditions flush_step asserts.
FlushOutcomes ==
    { [eos_ok |-> FALSE, vpu |-> [start |-> "ok", status |-> {}]] }
    \cup
    { [eos_ok |-> TRUE, vpu |-> d] :
        d \in { x \in DecodeOutcomes :
                  \/ "ERROR" \in x.status
                  \/ x.status = {}
                  \/ /\ "OUTPUT_DECODED" \notin x.status
                     /\ "FRAME_GIVEN_FOR_DISPLAY" \in x.status } }

\* flush_step under one outcome of the VPU: [session, frames, frame].
flush_step_with(s, f, o) ==
    IF ~s.open THEN [session |-> s, frames |-> f, frame |-> FALSE]
    ELSE IF ~o.eos_ok THEN [session |-> NoSession, frames |-> f, frame |-> FALSE]
    ELSE IF ~has_frame_for_decoding(s, f)
    THEN [session |-> s, frames |-> f, frame |-> FALSE]
    ELSE LET d == decode_video(s, f, o.vpu)
         IN IF "ERROR" \in d.status
            THEN [session |-> NoSession, frames |-> d.frames, frame |-> d.frame]
            ELSE IF d.status = {}
            THEN [session |-> NoSession, frames |-> d.frames, frame |-> d.frame]
            ELSE [session |-> d.session, frames |-> d.frames, frame |-> d.frame]

\* flush_step: everything it can come to.
flush_step(s, f) == { flush_step_with(s, f, o) : o \in FlushOutcomes }

\* An entry of the history of chunks written to a session.
FedEntry(pack, chunk, size_fed) ==
    [pack |-> pack.id, seq |-> chunk.seq, whole |-> size_fed = chunk.size]

\* What the VPU can answer to the feeding of a chunk: an error, or the free
\* space of the bitstream buffer (none, a byte, or room for the chunk).
FeedEvents(size) ==
    { [vpu_ok |-> FALSE, num_free_bytes |-> 0] }
    \cup { [vpu_ok |-> TRUE, num_free_bytes |-> n] : n \in {0, 1, size} }

RECURSIVE FeedLoop(_, _)
\* The loop of feed_frame: everything it can come to, as [ok, queue, log].
FeedLoop(q, log) ==
    IF front(q).m_chunks = <<>> THEN { [ok |-> TRUE, queue |-> q, log |-> log] }
    ELSE LET c == front(q).m_chunks[1]
             after(e) ==
                 LET r == feed(c.size, e.vpu_ok, e.num_free_bytes)
                     log1 == IF r.size_fed > 0
                             THEN Append(log, FedEntry(front(q), c, r.size_fed))
                             ELSE log
                 IN IF ~r.ok THEN { [ok |-> FALSE, queue |-> q, log |-> log1] }
                    ELSE IF r.size_fed # c.size
                    THEN { [ok |-> FALSE, queue |-> q, log |-> log1] }
                    ELSE FeedLoop(pop_chunk(q), log1)
         IN UNION { after(e) : e \in FeedEvents(c.size) }

feed_frame(q, log) == FeedLoop(q, log)

\* The result of feed_and_decode and of step_implementation. Besides what
\* the call leaves behind it tells what the call did: given counts the
\* frames that decode_video marked as given for display, decoded tells
\* whether decode_video was called for the front pack, and flush what became
\* of the flush step ("none" where the call did not come to it, "skipped"
\* where no frame buffer was free, "frame" or "empty").
StepResult(ok, q, s, f, frame, log) ==
    [ok |-> ok, queue |-> q, session |-> s, frames |-> f, frame |-> frame,
     log |-> log, given |-> 0, decoded |-> FALSE, flush |-> "none"]

\* The frames an output holds: one or none.
FramesIn(frame) == IF frame THEN 1 ELSE 0

FlushFront_pops_after_one_step(q, s, f, frame, log) ==
    IF ~has_frame_for_decoding(s, f)
    THEN { [StepResult(TRUE, q, s, f, frame, log)
                EXCEPT !.given = FramesIn(frame), !.flush = "skipped"] }
    ELSE { [StepResult(TRUE, pop_front(q), fs.session, fs.frames, fs.frame, log)
                EXCEPT !.given = FramesIn(frame) + FramesIn(fs.frame),
                       !.flush = IF fs.frame THEN "frame" ELSE "empty"] :
           fs \in flush_step(s, f) }

\* The end of feed_and_decode, reached with a decoded front pack that needs
\* flushing; the frame flush_step returns replaces the output.
FlushFront(q, s, f, frame, log) ==
    IF ~has_frame_for_decoding(s, f)
    THEN { [StepResult(TRUE, q, s, f, frame, log)
                EXCEPT !.given = FramesIn(frame), !.flush = "skipped"] }
    ELSE { IF fs.frame
           THEN [StepResult(TRUE, q, fs.session, fs.frames, TRUE, log)
                     EXCEPT !.given = FramesIn(frame) + 1, !.flush = "frame"]
           ELSE [StepResult(TRUE, pop_front(q), fs.session, fs.frames, FALSE, log)
                     EXCEPT !.given = FramesIn(frame), !.flush = "empty"] :
           fs \in flush_step(s, f) }

\* feed_and_decode from the decode on, the front pack being fed.
DecodeFront(q1, s, f, log, allow_for_incomplete_data) ==
    IF front(q1).m_decoded THEN FlushFront(q1, s, f, FALSE, log)
    ELSE LET after(d) ==
                 IF "ERROR" \in d.status
                 THEN { StepResult(FALSE, pop_front(q1), d.session, d.frames,
                                   d.frame, log) }
                 ELSE IF "OUTPUT_DECODED" \in d.status
                 THEN LET q2 == mark_front_as_decoded(q1)
                      IN IF ~front(q2).m_needs_flushing
                         THEN { StepResult(TRUE, pop_front(q2), d.session, d.frames,
                                           d.frame, log) }
                         ELSE FlushFront(q2, d.session, d.frames, d.frame, log)
                 ELSE IF "FRAME_GIVEN_FOR_DISPLAY" \in d.status
                 THEN { StepResult(TRUE, q1, d.session, d.frames, d.frame, log) }
                 ELSE IF "NOT_ENOUGH_INPUT_DATA" \in d.status
                 THEN { StepResult(allow_for_incomplete_data, q1, d.session,
                                   d.frames, d.frame, log) }
                 ELSE { StepResult(FALSE, pop_front(q1), d.session, d.frames,
                                   d.frame, log) }
             called(d) ==
                 { [r EXCEPT !.decoded = TRUE,
                             !.given = IF r.flush = "none" THEN FramesIn(d.frame) ELSE @] :
                   r \in after(d) }
         IN UNION { called(d) : d \in { decode_video(s, f, vpu) : vpu \in DecodeOutcomes } }

\* feed_and_decode: everything it can come to.
feed_and_decode(q, s, f, log, allow_for_incomplete_data) ==
    LET fed_front == IF front(q).m_chunks # <<>>
                     THEN feed_frame(q, log)
                     ELSE { [ok |-> TRUE, queue |-> q, log |-> log] }
    IN UNION { IF ~fr.ok
               THEN { StepResult(FALSE, pop_front(fr.queue), s, f, FALSE, fr.log) }
               ELSE DecodeFront(fr.queue, s, f, fr.log, allow_for_incomplete_data) :
               fr \in fed_front }

RECURSIVE PopUntilReopening(_)
\* The loop that drops complete packs which cannot reopen decoding.
PopUntilReopening(q) ==
    IF has_pack_for(q, "CONSUMPTION") /\ ~front(q).m_can_reopen_decoding
    THEN PopUntilReopening(pop_front(q))
    ELSE q

\* step_implementation: everything the call can come to, over what the VPU
\* can do during it. A result is that of feed_and_decode extended with
\* opened, telling whether the call opened a session, and opened_reopen, the
\* m_can_reopen_decoding flag of the pack it opened the session for.
step_implementation(q, s, f, log, purpose) ==
    LET nothing(qq, ss) == StepResult(TRUE, qq, ss, f, FALSE, log)
                               @@ [opened |-> FALSE, opened_reopen |-> FALSE,
                                   handled |-> 0]
    IN IF ~has_pack_for(q, purpose) THEN { nothing(q, s) }
       ELSE IF ~has_frame_for_decoding(s, f) THEN { nothing(q, s) }
       ELSE LET s1 == IF check_for_reopening(s, front(q)) THEN NoSession ELSE s
                q1 == IF ~s1.open THEN PopUntilReopening(q) ELSE q
                with(s2) ==
                    IF ~s2.open THEN { nothing(pop_front(q1), s2) }
                    ELSE { (IF ~r.ok THEN [r EXCEPT !.session = NoSession] ELSE r)
                           @@ [opened |-> ~s1.open,
                               opened_reopen |->
                                   ~s1.open /\ front(q1).m_can_reopen_decoding,
                               handled |-> front(q1).id] :
                           r \in feed_and_decode(q1, s2, f, log, purpose = "FEEDING") }
            IN IF ~s1.open /\ ~has_pack_for(q1, purpose) THEN { nothing(q1, s1) }
               ELSE IF s1.open THEN with(s1)
               ELSE UNION { with(open_for_video(front(q1).m_codec_type,
                                     front(q1).m_geometry,
                                     front(q1).m_maximum_number_of_reference_frames,
                                     m_display_frames, front(q1).m_needs_reordering,
                                     open_decoder_ok)) :
                            open_decoder_ok \in BOOLEAN }

(***************************************************************************)
(* h264_bitstream.cpp                                                      *)
(***************************************************************************)
\* H264Bitstream(data, size). pos is the number of bits read so far: the
\* reader loads whole bytes into m_bits and hands out their bits in stream
\* order, most significant first.
H264Bitstream(data) == [m_data |-> data, pos |-> 0]

\* Bit i of a byte sequence in stream order.
Bit(data, i) == (data[(i \div 8) + 1] \div (2 ^ (7 - (i % 8)))) % 2

RECURSIVE BitsValue(_, _, _)
BitsValue(data, pos, n) ==
    IF n = 0 THEN 0
    ELSE 2 * BitsValue(data, pos, n - 1) + Bit(data, pos + n - 1)

\* H264Bitstream::Result, with the reader as the call left it.
Result(value, error, bs) == [value |-> value, error |-> error, bs |-> bs]

\* A read that the data cannot serve returns the error and consumes nothing.
\* More than 24 bits cannot be asked of the 32-bit m_bits (the assert of
\* line 24); the model reports that as an error as well.
read_un_bits(bs, n) ==
    IF n = 0 THEN Result(0, FALSE, bs)
    ELSE IF n > 24 \/ bs.pos + n > 8 * Len(bs.m_data) THEN Result(0, TRUE, bs)
    ELSE Result(BitsValue(bs.m_data, bs.pos, n), FALSE, [bs EXCEPT !.pos = @ + n])

\* The zero bits from pos up to the first one bit or the end of the data.
RECURSIVE LeadingZeroBits(_, _)
LeadingZeroBits(data, pos) ==
    IF pos >= 8 * Len(data) THEN 0
    ELSE IF Bit(data, pos) = 1 THEN 0
    ELSE 1 + LeadingZeroBits(data, pos + 1)

UevResult_without_offset(leading_zero_bits, suffix_bits) ==
    IF suffix_bits.error THEN Result(0, TRUE, suffix_bits.bs)
    ELSE Result(suffix_bits.value, FALSE, suffix_bits.bs)

\* ok.value = (1 << leading_zero_bits) - 1 + suffix_bits.value
UevResult(leading_zero_bits, suffix_bits) ==
    IF suffix_bits.error THEN Result(0, TRUE, suffix_bits.bs)
    ELSE Result((2 ^ leading_zero_bits) - 1 + suffix_bits.value, FALSE,
                suffix_bits.bs)

\* The code that has leading_zero_bits zero bits before its one bit. The
\* loop over the leading bits returns the error where the data ends before
\* a one bit.
UevCode(bs, leading_zero_bits) ==
    IF bs.pos + leading_zero_bits >= 8 * Len(bs.m_data)
    THEN Result(0, TRUE, [bs EXCEPT !.pos = 8 * Len(bs.m_data)])
    ELSE UevResult(leading_zero_bits,
                   read_un_bits([bs EXCEPT !.pos = @ + leading_zero_bits + 1],
                                leading_zero_bits))

read_uev_bits(bs) == UevCode(bs, LeadingZeroBits(bs.m_data, bs.pos))

SevResult_rounding_down(result) ==
    IF result.error THEN result
    ELSE Result(IF result.value % 2 = 1 THEN result.value \div 2
                ELSE 0 - (result.value \div 2),
                FALSE, result.bs)

\* result.value = plus ? value : -value, with value = (result.value + 1) >> 1
SevResult(result) ==
    IF result.error THEN result
    ELSE Result(IF result.value % 2 = 1 THEN (result.value + 1) \div 2
                ELSE 0 - ((result.value + 1) \div 2),
                FALSE, result.bs)

read_sev_bits(bs) == SevResult(read_uev_bits(bs))

\* The reader with its members. data is the buffer that m_data points into
\* and m_data the offset of the pointer in it; fetched is a history member,
\* the offsets of the bytes fetched from the buffer since the reader was
\* last set to no bytes fetched. m_bits is kept right-aligned: the
\* m_bits_available bits that the 32-bit member holds at its top, as a number.
H264BitstreamOn(data) ==
    [data |-> data, m_data |-> 0, m_data_size |-> Len(data),
     m_bits_available |-> 0, m_bits |-> 0, fetched |-> {}]

\* *m_data: the byte at the pointer, whatever lies there (written 0) where
\* the pointer has left the buffer.
ByteAtPointer(this) ==
    IF this.m_data < Len(this.data) THEN this.data[this.m_data + 1] ELSE 0

\* m_bits |= (*m_data++) << (24 - m_bits_available); m_bits_available += 8;
\* --m_data_size;
LoadNextByte(this) ==
    [this EXCEPT !.m_bits = @ * 256 + ByteAtPointer(this),
                 !.m_bits_available = @ + 8,
                 !.m_data = @ + 1,
                 !.m_data_size = @ - 1,
                 !.fetched = @ \cup {this.m_data}]

RECURSIVE MakeBitsAvailable_unchecked(_, _)
MakeBitsAvailable_unchecked(this, n) ==
    IF this.m_bits_available >= n THEN Result(0, FALSE, this)
    ELSE MakeBitsAvailable_unchecked(LoadNextByte(this), n)

\* while (m_bits_available < n): return error when no data is left, load
\* the next byte otherwise.
RECURSIVE MakeBitsAvailable(_, _)
MakeBitsAvailable(this, n) ==
    IF this.m_bits_available >= n THEN Result(0, FALSE, this)
    ELSE IF this.m_data_size = 0 THEN Result(0, TRUE, this)
    ELSE MakeBitsAvailable(LoadNextByte(this), n)

\* ok.value = m_bits >> (32 - n); m_bits <<= n; m_bits_available -= n;
TakeBits(loaded, n) ==
    IF loaded.error THEN loaded
    ELSE Result(loaded.bs.m_bits \div (2 ^ (loaded.bs.m_bits_available - n)),
                FALSE,
                [loaded.bs EXCEPT
                    !.m_bits = @ % (2 ^ (loaded.bs.m_bits_available - n)),
                    !.m_bits_available = @ - n])

\* H264Bitstream::read_un_bits on the members, for n <= 24 as asserted.
H264Bitstream_read_un_bits(this, n) ==
    IF n = 0 THEN Result(0, FALSE, this)
    ELSE TakeBits(MakeBitsAvailable(this, n), n)

\* The while (1) loop of read_uev_bits and the read of the suffix bits.
RECURSIVE UevLeadingBits(_, _)
UevLeadingBits(leading_0_bit, leading_zero_bits) ==
    IF leading_0_bit.error THEN Result(0, TRUE, leading_0_bit.bs)
    ELSE IF leading_0_bit.value # 0
    THEN UevResult(leading_zero_bits,
                   H264Bitstream_read_un_bits(leading_0_bit.bs, leading_zero_bits))
    ELSE UevLeadingBits(H264Bitstream_read_un_bits(leading_0_bit.bs, 1),
                        leading_zero_bits + 1)

H264Bitstream_read_uev_bits(this) ==
    UevLeadingBits(H264Bitstream_read_un_bits(this, 1), 0)

H264Bitstream_read_sev_bits(this) == SevResult(H264Bitstream_read_uev_bits(this))

(***************************************************************************)
(* h264_nal.cpp                                                            *)
(***************************************************************************)
\* The NAL types of NalType.
UNSPECIFIED_ZERO == 0
NON_IDR_SLICE == 1
PARTITION_A_SLICE == 2
PARTITION_B_SLICE == 3
PARTITION_C_SLICE == 4
IDR_SLICE == 5
SUPPLEMENTAL_ENHANCED_INFORMATION == 6
SEQUENCE_PARAMETER_SET == 7
PICTURE_PARAMETER_SET == 8
ACCESS_UNIT_DELIMITER == 9
END_OF_SEQUENCE == 10
END_OF_STREAM == 11
FILLER == 12
FIRST_RESERVED_TYPE == 13
LAST_RESERVED_TYPE == 23
FIRST_UNSPECIFIED_TYPE == 24
LAST_UNSPECIFIED_TYPE == 31

H264_NUMBER_OF_SPS_ALLOWED == 32
H264_NUMBER_OF_PPS_ALLOWED == 256

\* A parse in progress is a record of the reader bs, of whether the function
\* has returned false already (failed: RETURN_IF_ERROR with asserts compiled
\* out, or an explicit return false), of the value of the last read, and of
\* the fields of the info structure read so far.

\* The parse after a read that gave bits.
Read(p, bits) ==
    [p EXCEPT !.bs = bits.bs, !.failed = bits.error, !.value = bits.value]

\* bits = read_un_bits(n); RETURN_IF_ERROR(bits);
Un(p, n) == IF p.failed THEN p ELSE Read(p, read_un_bits(p.bs, n))

\* bits = read_uev_bits(); RETURN_IF_ERROR(bits);
Uev(p) == IF p.failed THEN p ELSE Read(p, read_uev_bits(p.bs))

\* bits = read_sev_bits(); RETURN_IF_ERROR(bits);
Sev(p) == IF p.failed THEN p ELSE Read(p, read_sev_bits(p.bs))

\* if (cond) return false;
ReturnFalseIf(p, cond) == IF ~p.failed /\ cond THEN [p EXCEPT !.failed = TRUE] ELSE p

\* if (!(bits.value in allowed)) return false; for the value read last.
ReturnFalseUnless(p, allowed) == ReturnFalseIf(p, p.value \notin allowed)

\* info.<field> = bits.value; for the value read last.
Keep(p, field) == IF p.failed THEN p ELSE [p EXCEPT ![field] = p.value]

\* while (*data == 0x00) { data++; size--; } data++; size--;
RECURSIVE SkipStartCode(_)
SkipStartCode(data) ==
    IF data[1] = 0 THEN SkipStartCode(Tail(data)) ELSE Tail(data)

SupportedProfiles == {66, 77, 88, 100, 110, 122, 244, 44}
FreProfiles == {100, 110, 122, 244, 44}

\* The loop of at_h264_ignore_sps_fre_scaling_list from entry i on.
RECURSIVE IgnoreScalingList(_, _, _, _)
\* delta_scale has been read into bits.
IgnoreScalingListEntry(bits, size, i) ==
    IF bits.error THEN [ok |-> FALSE, bs |-> bits.bs]
    ELSE IgnoreScalingList(bits.bs, size, i + 1, (8 + bits.value + 256) % 256)

\* With next_scale 0 the entries left are passed over without a read.
IgnoreScalingList(bs, size, i, next_scale) ==
    IF i >= size \/ next_scale = 0 THEN [ok |-> TRUE, bs |-> bs]
    ELSE IgnoreScalingListEntry(read_sev_bits(bs), size, i)

at_h264_ignore_sps_fre_scaling_list(bs, size) == IgnoreScalingList(bs, size, 0, 8)

\* The loop over the scaling lists of the sequence parameter set from list i
\* on. A list of 16 that cannot be skipped fails the parse; a list of 64
\* fails it when it CAN be skipped (line 179).
RECURSIVE SpsScalingLists(_, _, _)
\* List i has been skipped, or could not be.
SpsScalingListSkipped(p, skipped, n_scaling_list, i) ==
    SpsScalingLists(
        ReturnFalseIf([p EXCEPT !.bs = skipped.bs],
                      IF i < 6 THEN ~skipped.ok ELSE skipped.ok),
        n_scaling_list, i + 1)

\* seq_scaling_list_present_flag of list i has been read.
SpsScalingListPresent(p, n_scaling_list, i) ==
    IF p.failed \/ p.value = 0 THEN SpsScalingLists(p, n_scaling_list, i + 1)
    ELSE SpsScalingListSkipped(
             p, at_h264_ignore_sps_fre_scaling_list(p.bs, IF i < 6 THEN 16 ELSE 64),
             n_scaling_list, i)

SpsScalingLists(p, n_scaling_list, i) ==
    IF p.failed \/ i >= n_scaling_list THEN p
    ELSE SpsScalingListPresent(Un(p, 1), n_scaling_list, i)

\* The part of the sequence parameter set that only the Fidelity Range
\* Extensions profiles carry.
SpsSeparateColourPlane(p) == IF p.chroma_format_idc = 3 THEN Un(p, 1) ELSE p

SpsScalingMatrix(p) ==
    IF p.value = 1
    THEN SpsScalingLists(p, IF p.chroma_format_idc = 3 THEN 12 ELSE 8, 0)
    ELSE p

\* bit_depth_luma_minus8, bit_depth_chroma_minus8,
\* lossless_qprime_y_zero_flag and seq_scaling_matrix_present_flag.
SpsBitDepths(p) == Un(Un(Uev(Uev(p)), 1), 1)

SpsFreExtension(p) ==
    SpsScalingMatrix(
        SpsBitDepths(SpsSeparateColourPlane(Keep(Uev(p), "chroma_format_idc"))))

SpsFre(p) == IF p.profile_idc \in FreProfiles THEN SpsFreExtension(p) ELSE p

\* for (i = 0; i < n; i++) { bits = read_sev_bits(); RETURN_IF_ERROR(bits); }
RECURSIVE SevTimes(_, _)
SevTimes(p, n) == IF p.failed \/ n <= 0 THEN p ELSE SevTimes(Sev(p), n - 1)

\* for (i = 0; i < n; i++) { bits = read_uev_bits(); RETURN_IF_ERROR(bits); }
RECURSIVE UevTimes(_, _)
UevTimes(p, n) == IF p.failed \/ n <= 0 THEN p ELSE UevTimes(Uev(p), n - 1)

\* bs_parser.read_sev_bits() with the result dropped: the bits are consumed
\* and an error of the read goes unnoticed.
SevUnchecked(p) ==
    IF p.failed THEN p ELSE [p EXCEPT !.bs = read_sev_bits(p.bs).bs]

\* The offset_for_ref_frame loop, as many times as the value read last.
SpsOffsetsForRefFrames(p) == SevTimes(p, p.value)

\* The fields read when pic_order_cnt_type is 1:
\* delta_pic_order_always_zero_flag, offset_for_non_ref_pic,
\* offset_for_top_to_bottom_field, whose result is dropped (line 210),
\* num_ref_frames_in_pic_order_cnt_cycle and the offsets.
SpsPicOrderCntType1(p) ==
    SpsOffsetsForRefFrames(
        Uev(SevUnchecked(Sev(Keep(Un(p, 1), "delta_pic_order_always_zero_flag")))))

SpsPicOrderCnt(p) ==
    IF p.pic_order_cnt_type = 0
    THEN Keep(Uev(p), "log2_max_pic_order_cnt_lsb_minus4")
    ELSE IF p.pic_order_cnt_type = 1 THEN SpsPicOrderCntType1(p)
    ELSE p

SpsMbAdaptiveFrameField(p) == IF p.frame_mbs_only_flag = 0 THEN Un(p, 1) ELSE p

\* The four frame_crop offsets; they are 0 without frame_cropping_flag.
SpsFrameCropOffsets(p) ==
    Keep(Uev(Keep(Uev(Keep(Uev(Keep(Uev(p),
        "frame_crop_left_offset")), "frame_crop_right_offset")),
        "frame_crop_top_offset")), "frame_crop_bottom_offset")

SpsFrameCropping(p) ==
    IF p.frame_cropping_flag = 1 THEN SpsFrameCropOffsets(p) ELSE p

\* The reader at the NAL header with no field of SpsNalInfo read yet.
SpsStart(data) ==
    [bs |-> H264Bitstream(SkipStartCode(data)), failed |-> FALSE, value |-> 0,
     profile_idc |-> 0, level_idc |-> 0, seq_parameter_set_id |-> 0,
     chroma_format_idc |-> 0, log2_max_frame_num_minus4 |-> 0,
     pic_order_cnt_type |-> 0, log2_max_pic_order_cnt_lsb_minus4 |-> 0,
     delta_pic_order_always_zero_flag |-> 0, num_ref_frames |-> 0,
     pic_width_in_mbs_minus1 |-> 0, pic_height_in_map_units_minus1 |-> 0,
     frame_mbs_only_flag |-> 0, frame_cropping_flag |-> 0,
     frame_crop_left_offset |-> 0, frame_crop_right_offset |-> 0,
     frame_crop_top_offset |-> 0, frame_crop_bottom_offset |-> 0]

\* forbidden_zero_bit, nal_ref_idc and nal_unit_type.
SpsNalHeader(p) ==
    ReturnFalseUnless(Un(Un(ReturnFalseUnless(Un(p, 1), {0}), 2), 5),
                      {SEQUENCE_PARAMETER_SET})

\* profile_idc, the constraint flags, level_idc and seq_parameter_set_id.
SpsProfile(p) ==
    Keep(Uev(Keep(Un(Un(
        ReturnFalseUnless(Keep(Un(p, 8), "profile_idc"), SupportedProfiles),
        8), 8), "level_idc")), "seq_parameter_set_id")

\* log2_max_frame_num_minus4 and pic_order_cnt_type.
SpsFrameNum(p) ==
    Keep(Uev(Keep(Uev(p), "log2_max_frame_num_minus4")), "pic_order_cnt_type")

\* num_ref_frames, gaps_in_frame_num_value_allowed_flag,
\* pic_width_in_mbs_minus1 and pic_height_in_map_units_minus1.
SpsDimensions(p) ==
    Keep(Uev(Keep(Uev(Un(Keep(Uev(p), "num_ref_frames"), 1)),
        "pic_width_in_mbs_minus1")), "pic_height_in_map_units_minus1")

\* frame_mbs_only_flag, mb_adaptive_frame_field_flag,
\* direct_8x8_inference_flag and frame_cropping_flag.
SpsFrameMbs(p) ==
    Keep(Un(Un(SpsMbAdaptiveFrameField(Keep(Un(p, 1), "frame_mbs_only_flag")),
        1), 1), "frame_cropping_flag")

\* The reads of at_h264_get_sps_info in their order.
SpsSyntax(p) ==
    SpsFrameCropping(SpsFrameMbs(SpsDimensions(SpsPicOrderCnt(
        SpsFrameNum(SpsFre(SpsProfile(SpsNalHeader(p))))))))

SpsNalInfo_crops_in_frame_units(p) ==
    LET frames == p.frame_mbs_only_flag = 1
        padded_frame_width == (p.pic_width_in_mbs_minus1 + 1) * 16
        padded_frame_height == (p.pic_height_in_map_units_minus1 + 1) * 16
                                   * (IF frames THEN 1 ELSE 2)
        true_crop_offset_left == p.frame_crop_left_offset * 2
        true_crop_offset_right == p.frame_crop_right_offset * 2
        true_crop_offset_bottom ==
            p.frame_crop_bottom_offset * 2
        true_crop_offset_top == p.frame_crop_top_offset * 2
    IN IF p.failed THEN [ok |-> FALSE]
       ELSE [ok |-> TRUE,
             profile_idc |-> p.profile_idc,
             level_idc |-> p.level_idc,
             seq_parameter_set_id |-> p.seq_parameter_set_id,
             log2_max_frame_num_minus4 |-> p.log2_max_frame_num_minus4,
             pic_order_cnt_type |-> p.pic_order_cnt_type,
             log2_max_pic_order_cnt_lsb_minus4 |-> p.log2_max_pic_order_cnt_lsb_minus4,
             delta_pic_order_always_zero_flag |->
                 p.delta_pic_order_always_zero_flag = 1,
             num_ref_frames |-> p.num_ref_frames,
             frame_mbs_only_flag |-> frames,
             pic_width_in_mbs_minus1 |-> p.pic_width_in_mbs_minus1,
             pic_height_in_map_units_minus1 |-> p.pic_height_in_map_units_minus1,
             frame_cropping_flag |-> p.frame_cropping_flag = 1,
             padded_frame_width |-> padded_frame_width,
             padded_frame_height |-> padded_frame_height,
             true_frame_width |->
                 padded_frame_width - true_crop_offset_left - true_crop_offset_right,
             true_frame_height |->
                 padded_frame_height - true_crop_offset_bottom - true_crop_offset_top,
             true_crop_offset_left |-> true_crop_offset_left,
             true_crop_offset_top |-> true_crop_offset_top]

\* The SpsNalInfo that the reads give, with the dimensions computed from it.
\* The dimensions are size_t values; a difference that wraps below zero is
\* kept as the negative integer congruent to the wrapped value.
SpsNalInfo(p) ==
    LET frames == p.frame_mbs_only_flag = 1
        padded_frame_width == (p.pic_width_in_mbs_minus1 + 1) * 16
        padded_frame_height == (p.pic_height_in_map_units_minus1 + 1) * 16
                                   * (IF frames THEN 1 ELSE 2)
        true_crop_offset_left == p.frame_crop_left_offset * 2
        true_crop_offset_right == p.frame_crop_right_offset * 2
        true_crop_offset_bottom ==
            p.frame_crop_bottom_offset * (IF frames THEN 2 ELSE 4)
        true_crop_offset_top == p.frame_crop_top_offset * (IF frames THEN 2 ELSE 4)
    IN IF p.failed THEN [ok |-> FALSE]
       ELSE [ok |-> TRUE,
             profile_idc |-> p.profile_idc,
             level_idc |-> p.level_idc,
             seq_parameter_set_id |-> p.seq_parameter_set_id,
             log2_max_frame_num_minus4 |-> p.log2_max_frame_num_minus4,
             pic_order_cnt_type |-> p.pic_order_cnt_type,
             log2_max_pic_order_cnt_lsb_minus4 |-> p.log2_max_pic_order_cnt_lsb_minus4,
             delta_pic_order_always_zero_flag |->
                 p.delta_pic_order_always_zero_flag = 1,
             num_ref_frames |-> p.num_ref_frames,
             frame_mbs_only_flag |-> frames,
             pic_width_in_mbs_minus1 |-> p.pic_width_in_mbs_minus1,
             pic_height_in_map_units_minus1 |-> p.pic_height_in_map_units_minus1,
             frame_cropping_flag |-> p.frame_cropping_flag = 1,
             padded_frame_width |-> padded_frame_width,
             padded_frame_height |-> padded_frame_height,
             true_frame_width |->
                 padded_frame_width - true_crop_offset_left - true_crop_offset_right,
             true_frame_height |->
                 padded_frame_height - true_crop_offset_bottom - true_crop_offset_top,
             true_crop_offset_left |-> true_crop_offset_left,
             true_crop_offset_top |-> true_crop_offset_top]

at_h264_get_sps_info(data) == SpsNalInfo(SpsSyntax(SpsStart(data)))

\* The smallest n with 2^n >= x: (uint32_t)ceil(log2(x)).
RECURSIVE Log2Ceil(_, _)
Log2Ceil(x, n) == IF 2 ^ n >= x THEN n ELSE Log2Ceil(x, n + 1)

\* for (i = 0; i <= pic_size_in_map_units_minus1; i++) bits = read_un_bits(n);
\* no read of the loop is checked. A read that fails consumes nothing, and
\* so do all reads after it.
RECURSIVE UnUncheckedTimes(_, _, _)
UnUncheckedRead(p, bits, n, times) ==
    IF bits.error THEN p
    ELSE UnUncheckedTimes([p EXCEPT !.bs = bits.bs], n, times - 1)

UnUncheckedTimes(p, n, times) ==
    IF p.failed \/ times <= 0 THEN p
    ELSE UnUncheckedRead(p, read_un_bits(p.bs, n), n, times)

\* slice_group_id, as often as the pic_size_in_map_units_minus1 read last.
PpsSliceGroupIds(p) ==
    UnUncheckedTimes(p, Log2Ceil(p.num_slice_groups_minus1 + 1, 0), p.value + 1)

\* The fields that follow slice_group_map_type, the value read last.
PpsSliceGroupMap(p) ==
    IF p.value = 0 THEN UevTimes(p, p.num_slice_groups_minus1 + 1)
    ELSE IF p.value = 2 THEN UevTimes(p, 2 * p.num_slice_groups_minus1)
    ELSE IF p.value \in {3, 4, 5} THEN Uev(Un(p, 1))
    ELSE IF p.value = 6 THEN PpsSliceGroupIds(Uev(p))
    ELSE p

\* The slice group fields of a picture parameter set with more than one
\* slice group.
PpsSliceGroups(p) ==
    IF p.num_slice_groups_minus1 # 0 THEN PpsSliceGroupMap(Uev(p)) ELSE p

\* The reader at the NAL header with no field of PpsNalInfo read yet.
PpsStart(data) ==
    [bs |-> H264Bitstream(SkipStartCode(data)), failed |-> FALSE, value |-> 0,
     pic_parameter_set_id |-> 0, seq_parameter_set_id |-> 0,
     entropy_coding_mode_flag |-> 0, pic_order_present_flag |-> 0,
     num_slice_groups_minus1 |-> 0, num_ref_idx_l0_active_minus1 |-> 0,
     num_ref_idx_l1_active_minus1 |-> 0, weighted_pred_flag |-> 0,
     weighted_bipred_idc |-> 0, redundant_pic_cnt_present_flag |-> 0]

\* forbidden_zero_bit, nal_ref_idc and nal_unit_type.
PpsNalHeader(p) ==
    ReturnFalseUnless(Un(Un(ReturnFalseUnless(Un(p, 1), {0}), 2), 5),
                      {PICTURE_PARAMETER_SET})

\* pic_parameter_set_id and seq_parameter_set_id.
PpsIds(p) ==
    ReturnFalseUnless(
        Keep(Uev(ReturnFalseUnless(Keep(Uev(p), "pic_parameter_set_id"),
                                   0..(H264_NUMBER_OF_PPS_ALLOWED - 1))),
             "seq_parameter_set_id"),
        0..(H264_NUMBER_OF_SPS_ALLOWED - 1))

\* entropy_coding_mode_flag, pic_order_present_flag and
\* num_slice_groups_minus1.
PpsFlags(p) ==
    Keep(Uev(Keep(Un(Keep(Un(p, 1), "entropy_coding_mode_flag"), 1),
        "pic_order_present_flag")), "num_slice_groups_minus1")

\* num_ref_idx_l0_active_minus1, num_ref_idx_l1_active_minus1,
\* weighted_pred_flag and weighted_bipred_idc.
PpsPrediction(p) ==
    Keep(Un(Keep(Un(Keep(Uev(Keep(Uev(p),
        "num_ref_idx_l0_active_minus1")), "num_ref_idx_l1_active_minus1"), 1),
        "weighted_pred_flag"), 2), "weighted_bipred_idc")

\* pic_init_qp_minus26, pic_init_qs_minus26, chroma_qp_index_offset,
\* deblocking_filter_control_present_flag, constrained_intra_pred_flag and
\* redundant_pic_cnt_present_flag.
PpsQuantisation(p) ==
    Keep(Un(Un(Un(Sev(Sev(Sev(p))), 1), 1), 1), "redundant_pic_cnt_present_flag")

\* The reads of at_h264_get_pps_info in their order.
PpsSyntax(p) ==
    PpsQuantisation(PpsPrediction(PpsSliceGroups(PpsFlags(PpsIds(PpsNalHeader(p))))))

\* The PpsNalInfo that the reads give.
PpsNalInfo(p) ==
    IF p.failed THEN [ok |-> FALSE]
    ELSE [ok |-> TRUE,
          pic_parameter_set_id |-> p.pic_parameter_set_id,
          seq_parameter_set_id |-> p.seq_parameter_set_id,
          entropy_coding_mode_flag |-> p.entropy_coding_mode_flag = 1,
          pic_order_present_flag |-> p.pic_order_present_flag = 1,
          num_slice_groups_minus1 |-> p.num_slice_groups_minus1,
          num_ref_idx_l0_active_minus1 |-> p.num_ref_idx_l0_active_minus1,
          num_ref_idx_l1_active_minus1 |-> p.num_ref_idx_l1_active_minus1,
          weighted_pred_flag |-> p.weighted_pred_flag = 1,
          weighted_bipred_idc |-> p.weighted_bipred_idc,
          redundant_pic_cnt_present_flag |-> p.redundant_pic_cnt_present_flag = 1]

at_h264_get_pps_info(data) == PpsNalInfo(PpsSyntax(PpsStart(data)))

\* bits = read_un_bits(8); while (!bits.error && !bits.value) bits = read_un_bits(8);
RECURSIVE SkipZeroBytes(_)
SkipZeroByte(bits) ==
    IF bits.failed \/ bits.value # 0 THEN bits ELSE SkipZeroBytes(bits)

SkipZeroBytes(p) == SkipZeroByte(Un(p, 8))

\* The slice types of H264SliceType.
SliceP == 0
SliceB == 1
SliceI == 2
SliceSP == 3
SliceSI == 4

\* The reader at the first byte of the NAL with no field of SliceHeaderInfo
\* read yet; field_pic_flag holds what the caller's variable happens to hold.
SliceStart(data, field_pic_flag_on_entry) ==
    [bs |-> H264Bitstream(data), failed |-> FALSE, value |-> 0,
     ref_nal_idc |-> 0, nal_unit_type |-> 0, slice_type |-> 0,
     h264_slice_type |-> 0, pic_parameter_set_id |-> 0, frame_num |-> 0,
     field_pic_flag |-> IF field_pic_flag_on_entry THEN 1 ELSE 0,
     num_ref_idx_l0_active_minus1 |-> 0, num_ref_idx_l1_active_minus1 |-> 0]

\* h264_slice_type: slice types 5 to 9 are the types 0 to 4 again.
SliceTypeFolded(p) ==
    IF p.failed THEN p
    ELSE [p EXCEPT !.h264_slice_type =
                       IF p.slice_type < 5 THEN p.slice_type ELSE p.slice_type - 5]

\* The start code, forbidden_zero_bit, nal_ref_idc and nal_unit_type.
SliceNalHeader(p) ==
    Keep(Un(Keep(Un(ReturnFalseUnless(Un(ReturnFalseUnless(SkipZeroBytes(p), {1}),
        1), {0}), 2), "ref_nal_idc"), 5), "nal_unit_type")

\* first_mb_in_slice, slice_type and pic_parameter_set_id.
at_h264_get_initial_slice_header_info_implementation(p) ==
    ReturnFalseUnless(
        Keep(Uev(SliceTypeFolded(Keep(Uev(Uev(SliceNalHeader(p))), "slice_type"))),
             "pic_parameter_set_id"),
        0..(H264_NUMBER_OF_PPS_ALLOWED - 1))

\* The fields of SliceHeaderInfo that the initial part of the header gives.
InitialSliceHeaderInfo(p) ==
    IF p.failed THEN [ok |-> FALSE]
    ELSE [ok |-> TRUE,
          ref_nal_idc |-> p.ref_nal_idc,
          nal_unit_type |-> p.nal_unit_type,
          slice_type |-> p.slice_type,
          h264_slice_type |-> p.h264_slice_type,
          pic_parameter_set_id |-> p.pic_parameter_set_id]

at_h264_get_initial_slice_header_info(data) ==
    InitialSliceHeaderInfo(
        at_h264_get_initial_slice_header_info_implementation(SliceStart(data, FALSE)))

\* if (cond) { bits = read_uev_bits(); RETURN_IF_ERROR(bits); }
UevIf(p, cond) == IF cond THEN Uev(p) ELSE p

\* if (cond) { bits = read_sev_bits(); RETURN_IF_ERROR(bits); }
SevIf(p, cond) == IF cond THEN Sev(p) ELSE p

\* if (cond) { bits = read_un_bits(n); RETURN_IF_ERROR(bits); }
UnIf(p, n, cond) == IF cond THEN Un(p, n) ELSE p

\* The do-while loop of at_h264_skip_ref_pic_list_reordering.
RECURSIVE RefPicListReorderingLoop(_)
\* abs_diff_pic_num_minus1 or long_term_pic_num has been read, where
\* reordering_of_pic_nums_idc asked for one.
RefPicListReorderingNext(p, reordering_of_pic_nums_idc) ==
    IF p.failed \/ reordering_of_pic_nums_idc = 3 THEN p
    ELSE RefPicListReorderingLoop(p)

\* reordering_of_pic_nums_idc is the value read last.
RefPicListReorderingArgument(p) ==
    RefPicListReorderingNext(UevIf(p, p.value \in {0, 1, 2}), p.value)

RefPicListReorderingLoop(p) == RefPicListReorderingArgument(Uev(p))

\* The loop, entered when the flag read last is set.
RefPicListReordering(p) ==
    IF ~p.failed /\ p.value = 1 THEN RefPicListReorderingLoop(p) ELSE p

at_h264_skip_ref_pic_list_reordering(p) == RefPicListReordering(Un(p, 1))

\* luma_weight_lx and luma_offset_lx, read when the flag read last is set.
PredWeightLuma(p) == IF p.value = 1 THEN Sev(Sev(p)) ELSE p

\* chroma_weight_lx and chroma_offset_lx for both planes, read when the flag
\* read last is set.
PredWeightChroma(p) == IF p.value = 1 THEN Sev(Sev(Sev(Sev(p)))) ELSE p

\* The loop of at_h264_skip_pred_weigh_table from entry i on.
RECURSIVE PredWeightTableLoop(_, _, _)
PredWeightTableLoop(p, i, num_ref_idx_lx_active_minus1) ==
    IF p.failed \/ i > num_ref_idx_lx_active_minus1 THEN p
    ELSE PredWeightTableLoop(PredWeightChroma(Un(PredWeightLuma(Un(p, 1)), 1)),
                             i + 1, num_ref_idx_lx_active_minus1)

at_h264_skip_pred_weigh_table(p, num_ref_idx_lx_active_minus1) ==
    PredWeightTableLoop(p, 0, num_ref_idx_lx_active_minus1)

\* bs_parser.read_uev_bits() with the result not checked (line 772): the bits
\* are consumed and an error of the read goes unnoticed.
UevUncheckedIf(p, cond) ==
    IF cond /\ ~p.failed THEN [p EXCEPT !.bs = read_uev_bits(p.bs).bs] ELSE p

\* The arguments of one memory_management_control_operation:
\* difference_of_pic_nums_minus1, long_term_pic_num, long_term_frame_idx and
\* max_long_term_frame_idx_plus1.
MemoryManagementArguments(p, operation) ==
    UevUncheckedIf(
        UevIf(UevIf(UevIf(p, operation \in {1, 3}), operation = 2),
              operation \in {3, 6}),
        operation = 4)

\* The do-while loop over memory_management_control_operation; operation is
\* the one whose arguments p has read last.
RECURSIVE MemoryManagementLoop(_)
MemoryManagementNext(p, operation) ==
    IF p.failed \/ operation = 0 THEN p ELSE MemoryManagementLoop(p)

MemoryManagementOperation(p) ==
    MemoryManagementNext(MemoryManagementArguments(p, p.value), p.value)

MemoryManagementLoop(p) == MemoryManagementOperation(Uev(p))

\* The loop, entered when the flag read last is set.
AdaptiveRefPicMarking(p) ==
    IF ~p.failed /\ p.value = 1 THEN MemoryManagementLoop(p) ELSE p

\* dec_ref_pic_marking() of a slice that is not an IDR slice.
DecRefPicMarking(p) == AdaptiveRefPicMarking(Un(p, 1))

\* field_pic_flag and bottom_field_flag, which only a sequence with field
\* pictures carries.
SliceBottomField(p) == UnIf(p, 1, p.field_pic_flag = 1)

SliceFieldPic(p, sps) ==
    IF sps.frame_mbs_only_flag THEN p
    ELSE SliceBottomField(Keep(Un(p, 1), "field_pic_flag"))

\* delta_pic_order_cnt_bottom or delta_pic_order_cnt[1].
SliceDeltaPicOrderCnt(p, pps) ==
    SevIf(p, pps.pic_order_present_flag /\ p.field_pic_flag = 0)

SlicePicOrderCnt(p, sps, pps) ==
    IF sps.pic_order_cnt_type = 0
    THEN SliceDeltaPicOrderCnt(
             Un(p, sps.log2_max_pic_order_cnt_lsb_minus4 + 4), pps)
    ELSE IF sps.pic_order_cnt_type = 1 /\ ~sps.delta_pic_order_always_zero_flag
    THEN SliceDeltaPicOrderCnt(Sev(p), pps)
    ELSE p

\* num_ref_idx_lX_active_minus1 start as the picture parameter set has them.
SliceRefIdxDefaults(p, pps) ==
    IF p.failed THEN p
    ELSE [p EXCEPT
              !.num_ref_idx_l0_active_minus1 = pps.num_ref_idx_l0_active_minus1,
              !.num_ref_idx_l1_active_minus1 = pps.num_ref_idx_l1_active_minus1]

SliceRefIdxL1(p) ==
    IF p.h264_slice_type = SliceB
    THEN Keep(Uev(p), "num_ref_idx_l1_active_minus1")
    ELSE p

\* The overriding values, read when the flag read last is set.
SliceRefIdxOverridden(p) ==
    IF ~p.failed /\ p.value = 1
    THEN SliceRefIdxL1(Keep(Uev(p), "num_ref_idx_l0_active_minus1"))
    ELSE p

SliceRefIdxOverride(p) ==
    IF p.h264_slice_type \in {SliceP, SliceSP, SliceB}
    THEN SliceRefIdxOverridden(Un(p, 1))
    ELSE p

SliceRefPicListReorderingL1(p) ==
    IF p.h264_slice_type = SliceB THEN at_h264_skip_ref_pic_list_reordering(p)
    ELSE p

SliceRefPicListReordering(p) ==
    IF p.h264_slice_type \notin {SliceI, SliceSI}
    THEN SliceRefPicListReorderingL1(at_h264_skip_ref_pic_list_reordering(p))
    ELSE p

SlicePredWeightTableL1(p) ==
    IF p.h264_slice_type = SliceB
    THEN at_h264_skip_pred_weigh_table(p, p.num_ref_idx_l1_active_minus1)
    ELSE p

\* The table of list 0, after the two denominators have been read.
SlicePredWeightTableL0(p) ==
    SlicePredWeightTableL1(
        at_h264_skip_pred_weigh_table(p, p.num_ref_idx_l0_active_minus1))

SlicePredWeightTable(p, pps) ==
    IF \/ pps.weighted_pred_flag /\ p.h264_slice_type \in {SliceP, SliceSP}
       \/ pps.weighted_bipred_idc = 1 /\ p.h264_slice_type = SliceB
    THEN SlicePredWeightTableL0(Uev(Uev(p)))
    ELSE p

SliceDecRefPicMarking(p) ==
    IF p.ref_nal_idc # 0 /\ p.nal_unit_type # 5 THEN DecRefPicMarking(p) ELSE p

SliceIdrPicId(p) == UevIf(p, p.nal_unit_type = 5)

SliceDirectSpatialMvPred(p) == UnIf(p, 1, p.h264_slice_type = SliceB)

\* frame_num, field_pic_flag with bottom_field_flag, idr_pic_id, the picture
\* order count fields, redundant_pic_cnt and direct_spatial_mv_pred_flag.
SlicePicture(p, sps, pps) ==
    SliceDirectSpatialMvPred(
        UevIf(SlicePicOrderCnt(
                  SliceIdrPicId(SliceFieldPic(
                      Keep(Un(p, sps.log2_max_frame_num_minus4 + 4), "frame_num"),
                      sps)),
                  sps, pps),
              pps.redundant_pic_cnt_present_flag))

\* The reads of at_h264_get_full_slice_header_info after the initial part.
SliceSyntax(p, sps, pps) ==
    SliceDecRefPicMarking(
        SlicePredWeightTable(
            SliceRefPicListReordering(
                SliceRefIdxOverride(
                    SliceRefIdxDefaults(SlicePicture(p, sps, pps), pps))),
            pps))

\* The SliceHeaderInfo that the reads give.
SliceHeaderInfo(p) ==
    IF p.failed THEN [ok |-> FALSE]
    ELSE [ok |-> TRUE,
          ref_nal_idc |-> p.ref_nal_idc,
          nal_unit_type |-> p.nal_unit_type,
          slice_type |-> p.slice_type,
          h264_slice_type |-> p.h264_slice_type,
          pic_parameter_set_id |-> p.pic_parameter_set_id,
          frame_num |-> p.frame_num,
          field_pic_flag |-> p.field_pic_flag = 1,
          num_ref_idx_l0_active_minus1 |-> p.num_ref_idx_l0_active_minus1,
          num_ref_idx_l1_active_minus1 |-> p.num_ref_idx_l1_active_minus1]

\* slice_header_info is a local variable of the caller that nothing
\* initialises: where frame_mbs_only_flag is set, field_pic_flag is read
\* (lines 627 and 640) without having been written. field_pic_flag_on_entry is
\* the value the variable happens to hold.
at_h264_get_full_slice_header_info(data, sps, pps, field_pic_flag_on_entry) ==
    SliceHeaderInfo(
        SliceSyntax(
            at_h264_get_initial_slice_header_info_implementation(
                SliceStart(data, field_pic_flag_on_entry)),
            sps, pps))

\* at_h264_next_start_code(data + from, data + Len(data)): the offset in data
\* of the first 00 00 01 that a byte follows, searched from offset from on, or
\* -1 for the null pointer. The 32-bit state starts as 0xdeadbeef, so the
\* four bytes of a match are all read in this search.
RECURSIVE at_h264_next_start_code(_, _)
at_h264_next_start_code(data, from) ==
    IF from + 4 > Len(data) THEN -1
    ELSE IF data[from + 1] = 0 /\ data[from + 2] = 0 /\ data[from + 3] = 1
         THEN from
         ELSE at_h264_next_start_code(data, from + 1)

\* The same search with the state that the code keeps: the last four bytes
\* loaded, the oldest first, in place of the 32-bit word.
StartCodeState_zeroed == <<0, 0, 0, 0>>

\* uint32_t state = 0xdeadbeef;
StartCodeState == <<222, 173, 190, 239>>

\* state <<= 8; state |= *ptr++;
StartCodeStateLoad(state, byte) == Append(Tail(state), byte)

\* 0x00000100 == (state & ~0xff)
StartCodeStateFound(state) == state[1] = 0 /\ state[2] = 0 /\ state[3] = 1

\* The while loop with ptr at offset ptr of data and limit at its end:
\* ptr - 4 where the state shows a start code, -1 for the null pointer.
RECURSIVE StartCodeScan(_, _, _)
StartCodeScan(data, ptr, state) ==
    IF ptr = Len(data) THEN -1
    ELSE IF StartCodeStateFound(StartCodeStateLoad(state, data[ptr + 1]))
         THEN ptr + 1 - 4
         ELSE StartCodeScan(data, ptr + 1,
                            StartCodeStateLoad(state, data[ptr + 1]))

(***************************************************************************)
(* vpu_decoding_session.hpp: the session that VPUH264Decoder drives.       *)
(* Only its interface is at hand; what a call may do to m_state is taken   *)
(* from the description of the states, every documented outcome allowed.   *)
(***************************************************************************)
\* A new session: m_state starts as DECODER_CLOSED.
VPUDecodingSession(frame_geometry, reordering) ==
    [m_state |-> "DECODER_CLOSED", m_frame_geometry |-> frame_geometry,
     m_reordering |-> reordering]

is_closed(s) == s.m_state = "DECODER_CLOSED"

get_reordering(s) == s.m_reordering

\* open() is called on a closed session and handles errors internally: the
\* decoder is open afterwards, or closed still.
open(s) == { [s EXCEPT !.m_state = "DECODER_OPEN"], s }

\* flush() of an open session ends with the decoder closed, or with the
\* session waiting for the frames that are still with the display.
flush(s) ==
    IF s.m_state = "DECODER_OPEN"
    THEN { [s EXCEPT !.m_state = "DECODER_CLOSED"],
           [s EXCEPT !.m_state = "DECODER_WAITING_FOR_ALL_FRAMES"] }
    ELSE {s}

\* return_output_frame() of the last frame a waiting session misses.
return_output_frame(s) ==
    IF s.m_state = "DECODER_WAITING_FOR_ALL_FRAMES"
    THEN [s EXCEPT !.m_state = "DECODER_CLOSED"]
    ELSE s

\* The values feed() can return. A closed session always wants data, an open
\* one when m_wants_data is set, a flushing or waiting one never.
VPUDecodingSession_feed(s) ==
    IF is_closed(s) THEN {TRUE}
    ELSE IF s.m_state = "DECODER_OPEN" THEN {TRUE, FALSE}
    ELSE {FALSE}

(***************************************************************************)
(* vpu_decoder_buffers.hpp                                                 *)
(***************************************************************************)
VPU_DEC_H264_MAIN_BITSTREAM_BUFFER_SIZE == (1920 * 1088 * 3) \div 2

pad_buffer_size(size) == (size - (size % 4096)) + 4096

\* VPUDecoderBuffers() followed by init_for_h264().
init_for_h264 ==
    LET wanted == pad_buffer_size(VPU_DEC_H264_MAIN_BITSTREAM_BUFFER_SIZE)
    IN [m_wanted_bitstream_buffer_size |-> wanted, m_bitstream_buffer_size |-> wanted]

update_wanted_bitstream_buffer_size(b, chunk_size) ==
    IF chunk_size > b.m_bitstream_buffer_size
       /\ b.m_wanted_bitstream_buffer_size < 2 * chunk_size
    THEN [b EXCEPT !.m_wanted_bitstream_buffer_size = 2 * chunk_size]
    ELSE b

should_grow_bitstream_buffer(b) ==
    b.m_wanted_bitstream_buffer_size # b.m_bitstream_buffer_size

grow_bitstream_buffer(b) ==
    LET wanted == pad_buffer_size(b.m_wanted_bitstream_buffer_size)
    IN [m_wanted_bitstream_buffer_size |-> wanted, m_bitstream_buffer_size |-> wanted]

(***************************************************************************)
(* vpu_h264_decoder.cpp                                                    *)
(***************************************************************************)
\* The constructor, init() and the set_reordering(true) of the player: the
\* dumb session was made while m_will_be_reordering was false still.
VPUH264Decoder ==
    [m_will_be_reordering |-> TRUE,
     m_buffers |-> init_for_h264,
     m_session |-> VPUDecodingSession(FrameGeometryDefault, FALSE)]

\* What a feeding function returns: the decoder as the call left it, the
\* value returned, whether the session's feed() was called and the three
\* parts it was called with (an empty part has size 0).
Feeding(d, ok, feed_called, parts) ==
    [decoder |-> d, ok |-> ok, feed_called |-> feed_called, parts |-> parts,
     open_parts |-> <<>>]

\* The call opened a new session with open_parts = { sps, nothing }.
Opening(f, sps) == [f EXCEPT !.open_parts = <<sps, <<>>>>]

\* The FrameGeometry that feed_picture_slice_with_parameter_sets builds from
\* the sequence parameter set.
FrameGeometryOf(sps_info) ==
    [m_padded_width |-> sps_info.padded_frame_width,
     m_padded_height |-> sps_info.padded_frame_height,
     m_true_width |-> sps_info.true_frame_width,
     m_true_height |-> sps_info.true_frame_height,
     m_crop_left |-> sps_info.true_crop_offset_left,
     m_crop_top |-> sps_info.true_crop_offset_top]

\* The new session for the stream that sps_info describes, or return false
\* when the sequence parameter set could not be parsed.
SessionReopened(d, sps_info) ==
    IF ~sps_info.ok THEN { [ok |-> FALSE, decoder |-> d] }
    ELSE { [ok |-> TRUE, decoder |-> [d EXCEPT !.m_session = s]] :
           s \in open(VPUDecodingSession(FrameGeometryOf(sps_info),
                                         d.m_will_be_reordering)) }

BitstreamBufferGrown(d) ==
    IF should_grow_bitstream_buffer(d.m_buffers)
    THEN [d EXCEPT !.m_buffers = grow_bitstream_buffer(@)]
    ELSE d

\* The reopening of feed_picture_slice_with_parameter_sets once the session
\* is closed, up to the open() of the new session.
Reopened(d, sps) ==
    SessionReopened(BitstreamBufferGrown(d), at_h264_get_sps_info(sps))

feed_picture_slice_with_parameter_sets(d, sps, pps, slice_nal, is_idr_slice, do_activate_sps, do_activate_pps) ==
    LET required_size == Len(sps) + Len(pps) + Len(slice_nal)
        d1 == [d EXCEPT !.m_buffers =
                            update_wanted_bitstream_buffer_size(@, required_size)]
        reopen == /\ is_idr_slice
                  /\ \/ do_activate_sps
                     \/ is_closed(d1.m_session)
                     \/ d1.m_will_be_reordering # get_reordering(d1.m_session)
                     \/ should_grow_bitstream_buffer(d1.m_buffers)
        feed_parts == << IF do_activate_sps THEN sps ELSE <<>>,
                         IF do_activate_pps \/ reopen THEN pps ELSE <<>>,
                         slice_nal >>
        Fed(dd) == { Feeding(dd, ok, TRUE, feed_parts) :
                     ok \in VPUDecodingSession_feed(dd.m_session) }
        Flushed == IF is_closed(d1.m_session) THEN {d1}
                   ELSE { [d1 EXCEPT !.m_session = s] : s \in flush(d1.m_session) }
    IN IF ~reopen THEN Fed(d1)
       ELSE UNION { IF ~is_closed(dd.m_session)
                    THEN { Feeding(dd, FALSE, FALSE, <<>>) }
                    ELSE UNION { IF r.ok
                                 THEN { Opening(f, sps) : f \in Fed(r.decoder) }
                                 ELSE { Feeding(r.decoder, FALSE, FALSE, <<>>) } :
                                 r \in Reopened(dd, sps) } :
                    dd \in Flushed }

feed_end_of_stream(d, eos_nal) ==
    { Feeding([d EXCEPT !.m_session = s], TRUE, FALSE, <<>>) : s \in flush(d.m_session) }

feed_other(d, nal) ==
    LET d1 == [d EXCEPT !.m_buffers = update_wanted_bitstream_buffer_size(@, Len(nal))]
    IN { Feeding(d1, ok, TRUE, <<nal, <<>>, <<>>>>) :
         ok \in VPUDecodingSession_feed(d1.m_session) }

VPUH264Decoder_reset(d) ==
    { Feeding([d EXCEPT !.m_session = s], TRUE, FALSE, <<>>) : s \in flush(d.m_session) }

(***************************************************************************)
(* h264_stream_parser.hpp                                                  *)
(***************************************************************************)
\* A NALParameterSet as constructed and as reset() leaves it; <<>> models
\* the null m_data.
NALParameterSet == [m_data |-> <<>>, m_size |-> 0, m_referred_index |-> -1]

update_always_replaces(set, nal, referred_index) ==
    [changed |-> TRUE,
     set |-> [m_data |-> nal, m_size |-> Len(nal), m_referred_index |-> referred_index]]

\* NALParameterSet::update: the value returned and the slot afterwards.
update(set, nal, referred_index) ==
    IF set.m_size = Len(nal) /\ set.m_data = nal
    THEN [changed |-> FALSE, set |-> set]
    ELSE [changed |-> TRUE,
          set |-> [m_data |-> nal, m_size |-> Len(nal),
                   m_referred_index |-> referred_index]]

\* The parser as constructed.
H264StreamParser ==
    [m_synchronized |-> FALSE,
     m_sequence_parameter_sets |->
         [i \in 0..(H264_NUMBER_OF_SPS_ALLOWED - 1) |-> NALParameterSet],
     m_picture_parameter_sets |->
         [i \in 0..(H264_NUMBER_OF_PPS_ALLOWED - 1) |-> NALParameterSet],
     m_activated_sps |-> -1,
     m_activated_pps |-> -1]

(***************************************************************************)
(* h264_stream_parser.cpp                                                  *)
(***************************************************************************)
\* What the handling of one NAL did: the parser and the decoder afterwards,
\* the consumed flag returned, whether the session's feed() was called and
\* with which parts, whether a slice header was parsed with success, and for
\* a parameter set what update() returned ("none" where it was not called)
\* with the slot before and after.
Handled(this, decoder, consumed, feed_called, parts, header_ok, changed, slot_before, slot_after) ==
    [this |-> this, decoder |-> decoder, consumed |-> consumed,
     feed_called |-> feed_called, parts |-> parts, header_ok |-> header_ok,
     changed |-> changed, slot_before |-> slot_before, slot_after |-> slot_after,
     open_parts |-> <<>>]

\* A NAL that is consumed without reaching the decoder or the tables.
Discarded(this, decoder) ==
    Handled(this, decoder, TRUE, FALSE, <<>>, FALSE, "none",
            NALParameterSet, NALParameterSet)

\* The outcome of a handler from what a feeding function of the decoder
\* returned: return true where it returned true, return false otherwise.
Passed(this, r, header_ok) ==
    [Handled(this, r.decoder, r.ok, r.feed_called, r.parts, header_ok, "none",
             NALParameterSet, NALParameterSet)
         EXCEPT !.open_parts = r.open_parts]

go_out_of_sync(this, decoder) ==
    { [this |-> [this EXCEPT !.m_synchronized = FALSE],
       decoder |-> r.decoder, ok |-> r.ok] :
      r \in VPUH264Decoder_reset(decoder) }

\* return go_out_of_sync();
ReturnGoOutOfSync(this, decoder) ==
    { Handled(r.this, r.decoder, r.ok, FALSE, <<>>, FALSE, "none",
              NALParameterSet, NALParameterSet) :
      r \in go_out_of_sync(this, decoder) }

\* What reading sps_id with H264Bitstream bs(nal + 7, size - 7) can give. For
\* a NAL of fewer than seven bytes size - 7 wraps around and the bytes read
\* lie behind the NAL: any id can come of it, in or out of range, or an error.
SpsIdRead(bits) == { [error |-> bits.error, value |-> bits.value] }

SpsIdReads(nal) ==
    IF Len(nal) >= 7
    THEN SpsIdRead(read_uev_bits(H264Bitstream(SubSeq(nal, 8, Len(nal)))))
    ELSE { [error |-> TRUE, value |-> 0] }
         \cup { [error |-> FALSE, value |-> v] : v \in 0..H264_NUMBER_OF_SPS_ALLOWED }

handle_sps_nal_keeps_activation(this, decoder, nal) ==
    UNION { IF bits.error \/ bits.value < 0 \/ bits.value >= H264_NUMBER_OF_SPS_ALLOWED
            THEN ReturnGoOutOfSync(this, decoder)
            ELSE LET sps_id == bits.value
                     slot == this.m_sequence_parameter_sets[sps_id]
                     updated == update(slot, nal, -1)
                     stored == [this EXCEPT
                                    !.m_sequence_parameter_sets[sps_id] = updated.set]
                 IN { Handled(stored, decoder, TRUE, FALSE, <<>>, FALSE,
                              IF updated.changed THEN "changed" ELSE "unchanged",
                              slot, updated.set) } :
            bits \in SpsIdReads(nal) }

handle_sps_nal(this, decoder, nal) ==
    UNION { IF bits.error \/ bits.value < 0 \/ bits.value >= H264_NUMBER_OF_SPS_ALLOWED
            THEN ReturnGoOutOfSync(this, decoder)
            ELSE LET sps_id == bits.value
                     slot == this.m_sequence_parameter_sets[sps_id]
                     updated == update(slot, nal, -1)
                     stored == [this EXCEPT
                                    !.m_sequence_parameter_sets[sps_id] = updated.set]
                     reactivate == /\ updated.changed
                                   /\ this.m_activated_sps # -1
                                   /\ this.m_activated_sps = sps_id
                 IN { Handled(IF reactivate
                              THEN [stored EXCEPT !.m_activated_sps = -1,
                                                  !.m_activated_pps = -1]
                              ELSE stored,
                              decoder, TRUE, FALSE, <<>>, FALSE,
                              IF updated.changed THEN "changed" ELSE "unchanged",
                              slot, updated.set) } :
            bits \in SpsIdReads(nal) }

PpsStored_without_sps_lookup(this, decoder, nal, pps) ==
    LET sps_id == pps.seq_parameter_set_id
        pps_id == pps.pic_parameter_set_id
        slot == this.m_picture_parameter_sets[pps_id]
        updated == update(slot, nal, sps_id)
        stored == [this EXCEPT !.m_picture_parameter_sets[pps_id] = updated.set]
    IN IF ~pps.ok THEN ReturnGoOutOfSync(this, decoder)
       ELSE { Handled(stored, decoder, TRUE, FALSE, <<>>, FALSE,
                      IF updated.changed THEN "changed" ELSE "unchanged",
                      slot, updated.set) }

PpsStored_keeps_activation(this, decoder, nal, pps) ==
    LET sps_id == pps.seq_parameter_set_id
        pps_id == pps.pic_parameter_set_id
        slot == this.m_picture_parameter_sets[pps_id]
        updated == update(slot, nal, sps_id)
        stored == [this EXCEPT !.m_picture_parameter_sets[pps_id] = updated.set]
    IN IF ~pps.ok THEN ReturnGoOutOfSync(this, decoder)
       ELSE IF this.m_sequence_parameter_sets[sps_id].m_size = 0
       THEN ReturnGoOutOfSync(this, decoder)
       ELSE { Handled(stored, decoder, TRUE, FALSE, <<>>, FALSE,
                      IF updated.changed THEN "changed" ELSE "unchanged",
                      slot, updated.set) }

\* handle_pps_nal after the picture parameter set has been parsed into pps.
PpsStored(this, decoder, nal, pps) ==
    LET sps_id == pps.seq_parameter_set_id
        pps_id == pps.pic_parameter_set_id
        slot == this.m_picture_parameter_sets[pps_id]
        updated == update(slot, nal, sps_id)
        stored == [this EXCEPT !.m_picture_parameter_sets[pps_id] = updated.set]
        active == updated.changed /\ this.m_activated_pps = pps_id
        reactivated ==
            [stored EXCEPT !.m_activated_sps =
                               IF sps_id # this.m_activated_sps THEN -1 ELSE @,
                           !.m_activated_pps = -1]
    IN IF ~pps.ok THEN ReturnGoOutOfSync(this, decoder)
       ELSE IF this.m_sequence_parameter_sets[sps_id].m_size = 0
       THEN ReturnGoOutOfSync(this, decoder)
       ELSE { Handled(IF active THEN reactivated ELSE stored,
                      decoder, TRUE, FALSE, <<>>, FALSE,
                      IF updated.changed THEN "changed" ELSE "unchanged",
                      slot, updated.set) }

StoredWhateverItRefersTo(this, decoder, nal, pps) ==
    IF ~pps.ok THEN ReturnGoOutOfSync(this, decoder)
    ELSE LET slot == this.m_picture_parameter_sets[pps.pic_parameter_set_id]
             set == [m_data |-> nal, m_size |-> Len(nal),
                     m_referred_index |-> pps.seq_parameter_set_id]
         IN { Handled([this EXCEPT !.m_picture_parameter_sets[pps.pic_parameter_set_id] = set,
                                   !.m_activated_sps = -1, !.m_activated_pps = -1],
                      decoder, TRUE, FALSE, <<>>, FALSE, "changed", slot, set) }

handle_pps_nal_stores_any(this, decoder, nal) ==
    StoredWhateverItRefersTo(this, decoder, nal, at_h264_get_pps_info(nal))

handle_pps_nal(this, decoder, nal) ==
    PpsStored(this, decoder, nal, at_h264_get_pps_info(nal))

\* What parse_slice_header gives: success or failure with sps_id and pps_id.
SliceHeaderFailure == [ok |-> FALSE, sps_id |-> -1, pps_id |-> -1]

\* The full header parsed with both parameter sets at hand. The local
\* slice_header_info is not initialised, so the full header is parsed for
\* both values its field_pic_flag may hold on entry.
SliceHeaderFull(slice_nal, sps_id, pps_id, sps_info, pps_info) ==
    IF ~sps_info.ok THEN {SliceHeaderFailure}
    ELSE IF ~pps_info.ok THEN {SliceHeaderFailure}
    ELSE { IF at_h264_get_full_slice_header_info(slice_nal, sps_info, pps_info,
                                                 field_pic_flag).ok
           THEN [ok |-> TRUE, sps_id |-> sps_id, pps_id |-> pps_id]
           ELSE SliceHeaderFailure :
           field_pic_flag \in BOOLEAN }

\* The stored parameter sets that the slice refers to, parsed.
SliceHeaderParameterSets(this, slice_nal, pps_id, pps) ==
    IF pps.m_size = 0 THEN {SliceHeaderFailure}
    ELSE SliceHeaderFull(
             slice_nal, pps.m_referred_index, pps_id,
             at_h264_get_sps_info(
                 this.m_sequence_parameter_sets[pps.m_referred_index].m_data),
             at_h264_get_pps_info(pps.m_data))

SliceHeaderInitial(this, slice_nal, initial) ==
    IF ~initial.ok THEN {SliceHeaderFailure}
    ELSE SliceHeaderParameterSets(
             this, slice_nal, initial.pic_parameter_set_id,
             this.m_picture_parameter_sets[initial.pic_parameter_set_id])

parse_slice_header(this, slice_nal) ==
    SliceHeaderInitial(this, slice_nal,
                       at_h264_get_initial_slice_header_info(slice_nal))

handle_idr_slice_nal_stays_out_of_sync(this, decoder, nal) ==
    UNION { IF ~header.ok THEN ReturnGoOutOfSync(this, decoder)
            ELSE LET sps == this.m_sequence_parameter_sets[header.sps_id]
                     pps == this.m_picture_parameter_sets[header.pps_id]
                     activated == [this EXCEPT !.m_activated_sps = header.sps_id,
                                                 !.m_activated_pps = header.pps_id]
                 IN { Passed(IF r.ok THEN activated ELSE this, r, TRUE) :
                      r \in feed_picture_slice_with_parameter_sets(
                                decoder, sps.m_data, pps.m_data, nal, TRUE,
                                this.m_activated_sps # header.sps_id,
                                this.m_activated_pps # header.pps_id) } :
            header \in parse_slice_header(this, nal) }

handle_idr_slice_nal_activates_refused(this, decoder, nal) ==
    UNION { IF ~header.ok THEN ReturnGoOutOfSync(this, decoder)
            ELSE LET sps == this.m_sequence_parameter_sets[header.sps_id]
                     pps == this.m_picture_parameter_sets[header.pps_id]
                     activated == [this EXCEPT !.m_activated_sps = header.sps_id,
                                                 !.m_activated_pps = header.pps_id,
                                                 !.m_synchronized = TRUE]
                 IN { Passed(activated, r, TRUE) :
                      r \in feed_picture_slice_with_parameter_sets(
                                decoder, sps.m_data, pps.m_data, nal, TRUE,
                                this.m_activated_sps # header.sps_id,
                                this.m_activated_pps # header.pps_id) } :
            header \in parse_slice_header(this, nal) }

handle_idr_slice_nal(this, decoder, nal) ==
    UNION { IF ~header.ok THEN ReturnGoOutOfSync(this, decoder)
            ELSE LET sps == this.m_sequence_parameter_sets[header.sps_id]
                     pps == this.m_picture_parameter_sets[header.pps_id]
                     activated == [this EXCEPT !.m_activated_sps = header.sps_id,
                                                 !.m_activated_pps = header.pps_id,
                                                 !.m_synchronized = TRUE]
                 IN { Passed(IF r.ok THEN activated ELSE this, r, TRUE) :
                      r \in feed_picture_slice_with_parameter_sets(
                                decoder, sps.m_data, pps.m_data, nal, TRUE,
                                this.m_activated_sps # header.sps_id,
                                this.m_activated_pps # header.pps_id) } :
            header \in parse_slice_header(this, nal) }

handle_non_idr_slice_nal_any_sps(this, decoder, nal) ==
    UNION { IF ~header.ok THEN ReturnGoOutOfSync(this, decoder)
            ELSE IF ~this.m_synchronized
            THEN { Handled(this, decoder, TRUE, FALSE, <<>>, TRUE, "none",
                           NALParameterSet, NALParameterSet) }
            ELSE LET pps == this.m_picture_parameter_sets[header.pps_id]
                     activated == [this EXCEPT !.m_activated_pps = header.pps_id]
                 IN { Passed(IF r.ok THEN activated ELSE this, r, TRUE) :
                      r \in feed_picture_slice_with_parameter_sets(
                                decoder, <<>>, pps.m_data, nal, FALSE, FALSE,
                                this.m_activated_pps # header.pps_id) } :
            header \in parse_slice_header(this, nal) }

handle_non_idr_slice_nal(this, decoder, nal) ==
    UNION { IF ~header.ok THEN ReturnGoOutOfSync(this, decoder)
            ELSE IF ~this.m_synchronized
            THEN { Handled(this, decoder, TRUE, FALSE, <<>>, TRUE, "none",
                           NALParameterSet, NALParameterSet) }
            ELSE IF this.m_activated_sps # header.sps_id
            THEN ReturnGoOutOfSync(this, decoder)
            ELSE LET pps == this.m_picture_parameter_sets[header.pps_id]
                     activated == [this EXCEPT !.m_activated_pps = header.pps_id]
                 IN { Passed(IF r.ok THEN activated ELSE this, r, TRUE) :
                      r \in feed_picture_slice_with_parameter_sets(
                                decoder, <<>>, pps.m_data, nal, FALSE, FALSE,
                                this.m_activated_pps # header.pps_id) } :
            header \in parse_slice_header(this, nal) }

handle_bc_partition_nal_synchronizes(this, decoder, nal) ==
    { Passed([this EXCEPT !.m_synchronized = TRUE], r, FALSE) :
      r \in feed_other(decoder, nal) }

handle_bc_partition_nal(this, decoder, nal) ==
    IF ~this.m_synchronized THEN { Discarded(this, decoder) }
    ELSE { Passed(this, r, FALSE) : r \in feed_other(decoder, nal) }

handle_sei_nal_feeds_unsynchronized(this, decoder, nal) ==
    { Passed(this, r, FALSE) : r \in feed_other(decoder, nal) }

handle_sei_nal(this, decoder, nal) ==
    IF ~this.m_synchronized THEN { Discarded(this, decoder) }
    ELSE { Passed(this, r, FALSE) : r \in feed_other(decoder, nal) }

handle_end_of_stream_nal(this, decoder, nal) ==
    IF ~this.m_synchronized THEN { Discarded(this, decoder) }
    ELSE { Passed(this, r, FALSE) : r \in feed_end_of_stream(decoder, nal) }

handle_end_of_sequence_nal(this, decoder, nal) ==
    IF ~this.m_synchronized THEN { Discarded(this, decoder) }
    ELSE { Passed(this, r, FALSE) : r \in feed_other(decoder, nal) }

handle_reserved_nal(this, decoder, nal) ==
    IF ~this.m_synchronized THEN { Discarded(this, decoder) }
    ELSE { Passed(this, r, FALSE) : r \in feed_other(decoder, nal) }

handle_unspecified_nal(this, decoder, nal) == { Discarded(this, decoder) }

\* NalType(nal[3] & 0x1f)
NalTypeOf(nal) == nal[4] % 32

handle_nal(this, decoder, nal) ==
    LET type == NalTypeOf(nal)
    IN CASE type = UNSPECIFIED_ZERO -> handle_unspecified_nal(this, decoder, nal)
         [] type = IDR_SLICE -> handle_idr_slice_nal(this, decoder, nal)
         [] type = NON_IDR_SLICE -> handle_non_idr_slice_nal(this, decoder, nal)
         [] type = PARTITION_A_SLICE -> handle_non_idr_slice_nal(this, decoder, nal)
         [] type = PARTITION_B_SLICE -> handle_bc_partition_nal(this, decoder, nal)
         [] type = PARTITION_C_SLICE -> handle_bc_partition_nal(this, decoder, nal)
         [] type = SUPPLEMENTAL_ENHANCED_INFORMATION ->
                handle_sei_nal(this, decoder, nal)
         [] type = SEQUENCE_PARAMETER_SET -> handle_sps_nal(this, decoder, nal)
         [] type = PICTURE_PARAMETER_SET -> handle_pps_nal(this, decoder, nal)
         [] type = ACCESS_UNIT_DELIMITER -> { Discarded(this, decoder) }
         [] type = END_OF_SEQUENCE -> handle_end_of_sequence_nal(this, decoder, nal)
         [] type = END_OF_STREAM -> handle_end_of_stream_nal(this, decoder, nal)
         [] type = FILLER -> { Discarded(this, decoder) }
         [] FIRST_RESERVED_TYPE <= type /\ type <= LAST_RESERVED_TYPE ->
                handle_reserved_nal(this, decoder, nal)
         [] FIRST_UNSPECIFIED_TYPE <= type /\ type <= LAST_UNSPECIFIED_TYPE ->
                handle_unspecified_nal(this, decoder, nal)

\* History: one NAL of a process_buffer call, where it lay in the buffer,
\* what the parser held before and after it, and what its handler did.
NalEntry(offset, size, type, this, h) ==
    [offset |-> offset, size |-> size, type |-> type,
     synchronized |-> this.m_synchronized,
     activated |-> <<this.m_activated_sps, this.m_activated_pps>>,
     synchronized_after |-> h.this.m_synchronized,
     activated_after |-> <<h.this.m_activated_sps, h.this.m_activated_pps>>,
     consumed |-> h.consumed, feed_called |-> h.feed_called, parts |-> h.parts,
     open_parts |-> h.open_parts, header_ok |-> h.header_ok,
     changed |-> h.changed,
     slot_before |-> h.slot_before, slot_after |-> h.slot_after]

\* What process_buffer returns, with the parser and the decoder as it left
\* them and the NALs it passed to handle_nal.
Processed(this, decoder, n, nals) ==
    [this |-> this, decoder |-> decoder, n |-> n, nals |-> nals]

\* The while loop of process_buffer; -1 models the null current_nal.
RECURSIVE NalLoop(_, _, _, _, _, _)
NalLoop(this, decoder, data, current_nal, bytes_consumed, nals) ==
    IF current_nal = -1 THEN { Processed(this, decoder, bytes_consumed, nals) }
    ELSE LET next_nal == at_h264_next_start_code(data, current_nal + 4)
             current_nal_limit == IF next_nal # -1 THEN next_nal ELSE Len(data)
             current_nal_size == current_nal_limit - current_nal
             nal == SubSeq(data, current_nal + 1, current_nal_limit)
             Entry(h) == NalEntry(current_nal, current_nal_size, NalTypeOf(nal),
                                  this, h)
         IN UNION { IF h.consumed
                    THEN NalLoop(h.this, h.decoder, data, next_nal,
                                 bytes_consumed + current_nal_size,
                                 Append(nals, Entry(h)))
                    ELSE { Processed(h.this, h.decoder, bytes_consumed,
                                     Append(nals, Entry(h))) } :
                    h \in handle_nal(this, decoder, nal) }

\* The buffer without a start code: return go_out_of_sync() ? length : 0.
NoStartCode(this, decoder, data) ==
    { Processed(r.this, r.decoder, IF r.ok THEN Len(data) ELSE 0, <<>>) :
      r \in go_out_of_sync(this, decoder) }

process_buffer_counts_refused(this, decoder, data) ==
    LET current_nal == at_h264_next_start_code(data, 0)
        Counted(o) == IF o.nals # <<>> /\ ~o.nals[Len(o.nals)].consumed
                      THEN [o EXCEPT !.n = @ + o.nals[Len(o.nals)].size]
                      ELSE o
    IN IF current_nal = -1 THEN NoStartCode(this, decoder, data)
       ELSE { Counted(o) :
              o \in NalLoop(this, decoder, data, current_nal, current_nal, <<>>) }

process_buffer(this, decoder, data) ==
    LET current_nal == at_h264_next_start_code(data, 0)
    IN IF current_nal = -1 THEN NoStartCode(this, decoder, data)
       ELSE NalLoop(this, decoder, data, current_nal, current_nal, <<>>)

H264StreamParser_reset_keeps_tables(this, decoder) ==
    { [this |-> [this EXCEPT !.m_synchronized = FALSE,
                                 !.m_activated_sps = -1,
                                 !.m_activated_pps = -1],
       decoder |-> r.decoder, ok |-> TRUE] :
      r \in VPUH264Decoder_reset(decoder) }

\* H264StreamParser::reset
H264StreamParser_reset(this, decoder) ==
    { IF r.ok
      THEN [this |-> [this EXCEPT
                            !.m_synchronized = FALSE,
                            !.m_activated_sps = -1,
                            !.m_activated_pps = -1,
                            !.m_sequence_parameter_sets =
                                [i \in DOMAIN @ |-> NALParameterSet],
                            !.m_picture_parameter_sets =
                                [i \in DOMAIN @ |-> NALParameterSet]],
            decoder |-> r.decoder, ok |-> TRUE]
      ELSE [this |-> this, decoder |-> r.decoder, ok |-> FALSE] :
      r \in VPUH264Decoder_reset(decoder) }

(***************************************************************************)
(* Producer and consumer operations on the queue                           *)
(***************************************************************************)
NoCall ==
    [op |-> "none", pre_has_frame |-> FALSE, pre_consumption |-> FALSE,
     pre_front |-> "none", frame |-> FALSE, popped |-> 0,
     opened |-> FALSE, opened_reopen |-> FALSE]

\* What a producer writes into a freshly pushed pack through back(): an
\* H.264 picture that can or cannot reopen decoding, of one of two sizes,
\* with or without reordering.
PackSettings ==
    { [reopen |-> TRUE, geometry |-> FrameGeometry(320, 240), refs |-> 1,
       reordering |-> FALSE],
      [reopen |-> FALSE, geometry |-> FrameGeometry(320, 240), refs |-> 1,
       reordering |-> FALSE],
      [reopen |-> TRUE, geometry |-> FrameGeometry(640, 480), refs |-> 1,
       reordering |-> TRUE] }

\* The queue and the driver never look into a chunk; two bytes let a chunk
\* be written whole, in part or not at all.
ChunkData == { <<187, 204>> }

NoH264Call ==
    [op |-> "none", data |-> <<>>, n |-> 0, nals |-> <<>>,
     before |-> H264StreamParser]

\* Everything as constructed: an empty queue, no session of the driver, the
\* H.264 parser and its decoder of the player.
Init ==
    /\ parser \in {"H264", "VP8"}
    /\ queue = EmptyQueue
    /\ m_geometry = FrameGeometryDefault
    /\ produced = [packs |-> 0, chunks |-> 0, flushes |-> 0]
    /\ m_session = NoSession
    /\ m_frames = NoFrames
    /\ fed = <<>>
    /\ last = NoCall
    /\ h264_parser = H264StreamParser
    /\ h264_decoder = VPUH264Decoder
    /\ h264_last = NoH264Call
    /\ bitstream = H264BitstreamOn(<<>>)

\* A producer starts a pack and fills in its decoding directives.
PushNewPack ==
    /\ parser = "H264"
    /\ produced.packs < MaxPacks
    /\ \E s \in PackSettings :
         LET q1 == push_new_pack(queue, produced.packs + 1)
         IN queue' = SetBack(q1, [back(q1) EXCEPT
                        !.m_codec_type = "H264",
                        !.m_can_reopen_decoding = s.reopen,
                        !.m_geometry = s.geometry,
                        !.m_maximum_number_of_reference_frames = s.refs,
                        !.m_needs_reordering = s.reordering])
    /\ produced' = [produced EXCEPT !.packs = @ + 1]
    /\ UNCHANGED <<parser, m_geometry>>

PushChunk ==
    /\ parser = "H264"
    /\ produced.chunks < MaxChunks
    /\ \E data \in ChunkData : queue' = push_chunk(queue, data, "chunk")
    /\ produced' = [produced EXCEPT !.chunks = @ + 1]
    /\ UNCHANGED <<parser, m_geometry>>

\* A producer that knows the picture ended marks the back pack through back().
MarkBackComplete ==
    /\ parser = "H264"
    /\ ~empty(queue)
    /\ ~back(queue).m_is_complete
    /\ queue' = SetBack(queue, [back(queue) EXCEPT !.m_is_complete = TRUE])
    /\ UNCHANGED <<parser, m_geometry, produced>>

\* A producer that saw the end of the sequence asks for flushing.
MarkBackNeedsFlushing ==
    /\ parser = "H264"
    /\ ~empty(queue)
    /\ ~back(queue).m_needs_flushing
    /\ produced.flushes < MaxFlushes
    /\ queue' = SetBack(queue, [back(queue) EXCEPT !.m_needs_flushing = TRUE])
    /\ produced' = [produced EXCEPT !.flushes = @ + 1]
    /\ UNCHANGED <<parser, m_geometry>>

Vp8ProcessBuffer ==
    /\ parser = "VP8"
    /\ produced.packs < MaxPacks
    /\ \E buffer \in Vp8Buffers :
         LET r == vp8_process_buffer(queue, m_geometry, buffer, produced.packs + 1)
         IN /\ queue' = r.queue
            /\ m_geometry' = r.geometry
            /\ produced' = IF r.pushed THEN [produced EXCEPT !.packs = @ + 1]
                            ELSE produced
    /\ UNCHANGED parser

PopChunk ==
    /\ ~empty(queue)
    /\ front(queue).m_chunks # <<>>
    /\ queue' = pop_chunk(queue)
    /\ UNCHANGED <<parser, m_geometry, produced>>

MarkFrontAsDecoded ==
    /\ ~empty(queue)
    /\ ~front(queue).m_decoded
    /\ queue' = mark_front_as_decoded(queue)
    /\ UNCHANGED <<parser, m_geometry, produced>>

PopFront ==
    /\ ~empty(queue)
    /\ queue' = pop_front(queue)
    /\ UNCHANGED <<parser, m_geometry, produced>>

\* The history handed to a driver call: the chunk written last so far.
LastFed(log) == IF log = <<>> THEN <<>> ELSE <<log[Len(log)]>>

\* What a driver call saw and did.
CallRecord(op, r) ==
    [op |-> op,
     pre_has_frame |-> has_frame_for_decoding(m_session, m_frames),
     pre_consumption |-> has_pack_for_consumption(queue),
     pre_front |-> IF empty(queue) THEN "none"
                   ELSE IF front(queue).pushed = 0 THEN "empty"
                   ELSE IF front(queue).m_chunks = <<>> THEN "fed"
                   ELSE "unfed",
     frame |-> r.frame,
     popped |-> r.queue.m_number_of_packs_popped - queue.m_number_of_packs_popped,
     opened |-> r.opened, opened_reopen |-> r.opened_reopen]

\* Everything one call of step (purpose CONSUMPTION) or try_to_step (purpose
\* FEEDING) can come to in the current state.
StepOutcomes(purpose) ==
    step_implementation(queue, m_session, m_frames, LastFed(fed), purpose)

StepEffect(r) ==
    /\ queue' = r.queue
    /\ m_session' = r.session
    /\ m_frames' = r.frames
    /\ UNCHANGED <<parser, m_geometry, produced>>

\* A driver call of which the call record is kept.
StepCall(op, purpose) ==
    \E r \in StepOutcomes(purpose) :
        /\ StepEffect(r)
        /\ last' = CallRecord(op, r)
        /\ UNCHANGED fed

Step == StepCall("step", "CONSUMPTION")

TryToStep == StepCall("try_to_step", "FEEDING")

\* A driver call of which the chunks written are kept.
FeedingCall(purpose) ==
    \E r \in StepOutcomes(purpose) :
        /\ StepEffect(r)
        /\ fed' = r.log
        /\ UNCHANGED last

FeedingStep == FeedingCall("CONSUMPTION")

FeedingTryToStep == FeedingCall("FEEDING")

\* The player gives a displayed frame back.
ReturnOutputFrame ==
    /\ m_session.open
    /\ m_frames.given > 0
    /\ m_frames' = mark_frame_as_returned(m_frames)
    /\ last' = NoCall
    /\ UNCHANGED <<qvars, m_session, fed>>

FlushStep ==
    /\ m_session.open
    /\ \E r \in flush_step(m_session, m_frames) :
         /\ m_session' = r.session
         /\ m_frames' = r.frames
    /\ last' = NoCall
    /\ UNCHANGED <<qvars, fed>>

Close ==
    /\ m_session.open
    /\ m_session' = NoSession
    /\ last' = NoCall
    /\ UNCHANGED <<qvars, m_frames, fed>>

Produce ==
    /\ \/ PushNewPack
       \/ PushChunk
       \/ MarkBackNeedsFlushing
       \/ Vp8ProcessBuffer
    /\ last' = NoCall
    /\ UNCHANGED <<m_session, m_frames, fed>>

DecoderNext ==
    \/ Produce /\ UNCHANGED hvars
    \/ Step /\ UNCHANGED hvars
    \/ TryToStep /\ UNCHANGED hvars
    \/ ReturnOutputFrame /\ UNCHANGED hvars
    \/ FlushStep /\ UNCHANGED hvars
    \/ Close /\ UNCHANGED hvars

\* A stream parser filling the queue and the player driving the VPUDecoder.
SpecDecoder == Init /\ [][DecoderNext]_vars

\* The packs of the queue with this id: one or none.
PacksWithId(q, id) == { q.m_packs[i] : i \in { j \in 1..Len(q.m_packs) : q.m_packs[j].id = id } }

\* What a driver call did to the front pack: the pack as the call found it
\* and as it left it (<<>> where the queue does not hold it), whether it is
\* the pack the call fed and decoded for, and what the call did.
HandlingRecord(op, r) ==
    [op |-> op,
     before |-> IF empty(queue) THEN <<>> ELSE <<front(queue)>>,
     after |-> IF empty(queue) THEN <<>>
               ELSE IF PacksWithId(r.queue, front(queue).id) = {} THEN <<>>
               ELSE <<CHOOSE p \in PacksWithId(r.queue, front(queue).id) : TRUE>>,
     at_front |-> IF empty(queue) \/ empty(r.queue) THEN FALSE
                  ELSE front(r.queue).id = front(queue).id,
     handled |-> IF empty(queue) THEN FALSE ELSE r.handled = front(queue).id,
     session |-> m_session.open,
     ok |-> r.ok, frame |-> r.frame, given |-> r.given, decoded |-> r.decoded,
     flush |-> r.flush]

\* A driver call of which the handling of the front pack is kept.
HandlingCall(op, purpose) ==
    \E r \in StepOutcomes(purpose) :
        /\ StepEffect(r)
        /\ last' = HandlingRecord(op, r)
        /\ UNCHANGED fed

HandlingStep == HandlingCall("step", "CONSUMPTION")

HandlingTryToStep == HandlingCall("try_to_step", "FEEDING")

FlushingNext ==
    \/ Produce /\ UNCHANGED hvars
    \/ HandlingStep /\ UNCHANGED hvars
    \/ HandlingTryToStep /\ UNCHANGED hvars
    \/ ReturnOutputFrame /\ UNCHANGED hvars
    \/ FlushStep /\ UNCHANGED hvars
    \/ Close /\ UNCHANGED hvars

\* The same system, observed for what each driver call does to its pack.
SpecFlushing == Init /\ [][FlushingNext]_vars

FeedNext ==
    \/ Produce /\ UNCHANGED hvars
    \/ FeedingStep /\ UNCHANGED hvars
    \/ FeedingTryToStep /\ UNCHANGED hvars
    \/ ReturnOutputFrame /\ UNCHANGED hvars
    \/ FlushStep /\ UNCHANGED hvars
    \/ Close /\ UNCHANGED hvars

\* The same system, observed for the chunks the driver writes to sessions.
SpecFeed == Init /\ [][FeedNext]_vars

PackQueueNext ==
    \/ PushNewPack /\ UNCHANGED <<dvars, hvars>>
    \/ PushChunk /\ UNCHANGED <<dvars, hvars>>
    \/ MarkBackComplete /\ UNCHANGED <<dvars, hvars>>
    \/ Vp8ProcessBuffer /\ UNCHANGED <<dvars, hvars>>
    \/ PopChunk /\ UNCHANGED <<dvars, hvars>>
    \/ MarkFrontAsDecoded /\ UNCHANGED <<dvars, hvars>>
    \/ PopFront /\ UNCHANGED <<dvars, hvars>>

\* The queue under every interleaving of its producer and consumer operations.
SpecPackQueue == Init /\ [][PackQueueNext]_vars

(***************************************************************************)
(* The VP8 parser fed with frames                                          *)
(***************************************************************************)
\* History of the VP8 parser: whether a frame was refused and no key frame
\* has been accepted since, and the size of the key frame accepted last
\* (<<>> before the first one).
Vp8AwaitingKeyframe ==
    last.op = "vp8_process_buffer" /\ last.awaiting_keyframe

Vp8LastKeyframe ==
    IF last.op = "vp8_process_buffer" THEN last.keyframe ELSE <<>>

\* process_buffer(buffer) on one of the frames, with what it found and left.
Vp8Frame ==
    /\ parser = "VP8"
    /\ produced.packs < MaxPacks
    /\ \E buffer \in Vp8Buffers :
         LET r == vp8_process_buffer(queue, m_geometry, buffer, produced.packs + 1)
         IN /\ queue' = r.queue
            /\ m_geometry' = r.geometry
            /\ produced' = IF r.pushed THEN [produced EXCEPT !.packs = @ + 1]
                            ELSE produced
            /\ last' = [op |-> "vp8_process_buffer", buffer |-> buffer,
                        before |-> queue, after |-> r.queue,
                        pushed |-> r.pushed, freed |-> r.freed,
                        awaited_keyframe |-> Vp8AwaitingKeyframe,
                        awaiting_keyframe |->
                            IF ~r.pushed THEN TRUE
                            ELSE IF Vp8Keyframe(buffer) THEN FALSE
                            ELSE Vp8AwaitingKeyframe,
                        previous_keyframe |-> Vp8LastKeyframe,
                        keyframe |->
                            IF r.pushed /\ Vp8Keyframe(buffer)
                            THEN <<LoadU16(buffer, 6) % 16384,
                                   LoadU16(buffer, 8) % 16384>>
                            ELSE Vp8LastKeyframe]
    /\ UNCHANGED parser

Vp8Next ==
    \/ Vp8Frame /\ UNCHANGED <<m_session, m_frames, fed, hvars>>
    \/ PopChunk /\ UNCHANGED <<dvars, hvars>>
    \/ PopFront /\ UNCHANGED <<dvars, hvars>>

\* The VP8 parser filling the queue while a consumer empties it.
SpecVp8 == Init /\ [][Vp8Next]_vars

(***************************************************************************)
(* A parser that breaks buffers into chunks and hands over their callbacks *)
(***************************************************************************)
\* The buffer being processed: one more than the attach_free_callback calls
\* made, each buffer ending with one such call.
CurrentBuffer ==
    IF last.op = "attach_free_callback" THEN last.buffer + 1 ELSE 1

\* The parser starts a pack while it processes the current buffer.
BufferPushNewPack ==
    /\ parser = "H264"
    /\ CurrentBuffer <= MaxBuffers
    /\ produced.packs < MaxPacks
    /\ queue' = push_new_pack(queue, produced.packs + 1)
    /\ produced' = [produced EXCEPT !.packs = @ + 1]
    /\ UNCHANGED <<parser, m_geometry, last>>

\* The parser keeps a chunk of the current buffer: the chunk's data points
\* into the buffer, which the model writes as the number of the buffer.
BufferPushChunk ==
    /\ parser = "H264"
    /\ CurrentBuffer <= MaxBuffers
    /\ produced.chunks < MaxChunks
    /\ queue' = push_chunk(queue, <<CurrentBuffer>>, "chunk")
    /\ produced' = [produced EXCEPT !.chunks = @ + 1]
    /\ UNCHANGED <<parser, m_geometry, last>>

\* The parser is through with the current buffer and hands over its free
\* callback: none (VideoBuffer::free_callback is 0 unless the caller sets
\* it) or the buffer's own, written as the number of the buffer.
BufferAttachFreeCallback ==
    /\ parser = "H264"
    /\ CurrentBuffer <= MaxBuffers
    /\ \E callback \in {0, CurrentBuffer} :
         /\ queue' = attach_free_callback(queue, callback)
         /\ last' = [op |-> "attach_free_callback", buffer |-> CurrentBuffer,
                     callback |-> callback,
                     called |-> callback_called(queue, callback),
                     before |-> queue, after |-> queue']
    /\ UNCHANGED <<parser, m_geometry, produced>>

FreeCallbackNext ==
    \/ BufferPushNewPack /\ UNCHANGED <<m_session, m_frames, fed, hvars>>
    \/ BufferPushChunk /\ UNCHANGED <<m_session, m_frames, fed, hvars>>
    \/ BufferAttachFreeCallback /\ UNCHANGED <<m_session, m_frames, fed, hvars>>
    \/ PopChunk /\ UNCHANGED <<dvars, hvars>>
    \/ PopFront /\ UNCHANGED <<dvars, hvars>>

\* Buffers broken into chunks while a consumer takes chunks and packs away.
SpecFreeCallback == Init /\ [][FreeCallbackNext]_vars

(***************************************************************************)
(* The H.264 parser fed with buffers of NALs                               *)
(***************************************************************************)
\* Sequence parameter sets of the Baseline profile with id 0, picture order
\* count type 2: one for 320x240, one for 640x480, and one whose id 32 is
\* out of range.
SpsA == <<0, 0, 1, 103, 66, 0, 30, 218, 5, 7, 228>>
SpsB == <<0, 0, 1, 103, 66, 0, 30, 218, 2, 128, 246, 64>>
SpsBad == <<0, 0, 1, 103, 66, 0, 30, 4, 54, 129, 65, 249>>
\* Picture parameter sets with id 0 that refer to SPS 0: one without and one
\* with deblocking_filter_control_present_flag.
PpsA == <<0, 0, 1, 104, 206, 56, 128>>
PpsB == <<0, 0, 1, 104, 206, 60, 128>>
\* Picture parameter sets with ids out of range: pic_parameter_set_id 256,
\* and pic_parameter_set_id 0 with seq_parameter_set_id 32.
PpsIdTooBig == <<0, 0, 1, 104, 0, 128, 128>>
PpsSpsIdTooBig == <<0, 0, 1, 104, 130, 16>>
\* First slices (first_mb_in_slice = 0) of IDR pictures that refer to PPS 0
\* and to PPS 2.
IdrA == <<0, 0, 1, 101, 136, 132, 192>>
IdrBad == <<0, 0, 1, 101, 136, 97, 48>>
\* Slices of P pictures that refer to PPS 0 and to PPS 2.
NonIdrA == <<0, 0, 1, 65, 154, 35>>
NonIdrBad == <<0, 0, 1, 65, 153, 136, 192>>
\* The NALs without a header of their own.
PartB == <<0, 0, 1, 67, 154>>
Sei == <<0, 0, 1, 6, 5, 1, 170, 128>>
Aud == <<0, 0, 1, 9, 240>>
EndSeq == <<0, 0, 1, 10>>
EndStream == <<0, 0, 1, 11>>
Filler == <<0, 0, 1, 12, 255, 128>>
Reserved == <<0, 0, 1, 14, 128>>
Unspec24 == <<0, 0, 1, 24, 128>>

\* The buffers given to process_buffer: NALs alone, access units, a stream
\* that breaks and recovers, a buffer with bytes ahead of the first start
\* code, four-byte start codes, a buffer without a start code and the empty
\* buffer.
H264Buffers ==
    { SpsA, SpsB, SpsBad, PpsA, PpsB, PpsIdTooBig, PpsSpsIdTooBig, IdrA, IdrBad, NonIdrA,
      PartB, Sei, EndSeq, EndStream, Reserved, Unspec24,
      SpsA \o PpsA \o IdrA,
      IdrA \o NonIdrA \o Sei,
      NonIdrBad \o Sei \o NonIdrA \o IdrA,
      <<7, 0>> \o Aud \o Sei,
      <<0>> \o Aud \o <<0>> \o Filler,
      <<0, 0, 7, 1>>,
      <<>> }

\* process_buffer(timestamp, data, length) on one of the buffers.
H264ProcessBuffer ==
    /\ \E data \in H264Buffers :
         \E o \in process_buffer(h264_parser, h264_decoder, data) :
            /\ h264_parser' = o.this
            /\ h264_decoder' = o.decoder
            /\ h264_last' = [op |-> "process_buffer", data |-> data, n |-> o.n,
                             nals |-> o.nals, before |-> h264_parser]
    /\ UNCHANGED <<qvars, dvars, bitstream>>

\* reset() of the parser.
H264Reset ==
    /\ \E r \in H264StreamParser_reset(h264_parser, h264_decoder) :
            /\ h264_parser' = r.this
            /\ h264_decoder' = r.decoder
            /\ h264_last' = [op |-> "reset", data |-> <<>>, n |-> 0,
                             nals |-> <<>>, before |-> h264_parser]
    /\ UNCHANGED <<qvars, dvars, bitstream>>

\* The display gives back the frames a flushed session waits for.
H264ReturnOutputFrame ==
    /\ h264_decoder.m_session.m_state = "DECODER_WAITING_FOR_ALL_FRAMES"
    /\ h264_decoder' = [h264_decoder EXCEPT !.m_session = return_output_frame(@)]
    /\ h264_last' = NoH264Call
    /\ UNCHANGED <<h264_parser, qvars, dvars, bitstream>>

ParserNext ==
    \/ H264ProcessBuffer
    \/ H264Reset
    \/ H264ReturnOutputFrame

\* The H.264 stream parser with the decoder it feeds.
SpecParser == Init /\ [][ParserNext]_vars

(***************************************************************************)
(* The H.264 parser fed with parameter sets of several ids                 *)
(***************************************************************************)
\* SpsA with seq_parameter_set_id 1.
Sps1 == <<0, 0, 1, 103, 66, 0, 30, 86, 129, 65, 249>>
\* PpsA with pic_parameter_set_id 0 referring to SPS 1, with id 1 referring
\* to SPS 1 and with id 1 referring to SPS 0.
Pps0Sps1 == <<0, 0, 1, 104, 163, 142, 32>>
Pps1Sps1 == <<0, 0, 1, 104, 72, 227, 136>>
Pps1Sps0 == <<0, 0, 1, 104, 83, 142, 32>>
\* IdrA and NonIdrA referring to PPS 1.
Idr1 == <<0, 0, 1, 101, 136, 65, 48>>
NonIdr1 == <<0, 0, 1, 65, 153, 8, 192>>

\* The buffers given to process_buffer: one NAL each.
ParameterSetBuffers ==
    { SpsA, Sps1, PpsA, Pps0Sps1, Pps1Sps1, Pps1Sps0, PpsSpsIdTooBig,
      IdrA, Idr1, NonIdr1 }

\* process_buffer(timestamp, data, length) on one of these buffers.
H264ProcessParameterSets ==
    /\ \E data \in ParameterSetBuffers :
         \E o \in process_buffer(h264_parser, h264_decoder, data) :
            /\ h264_parser' = o.this
            /\ h264_decoder' = o.decoder
            /\ h264_last' = [op |-> "process_buffer", data |-> data, n |-> o.n,
                             nals |-> o.nals, before |-> h264_parser]
    /\ UNCHANGED <<qvars, dvars, bitstream>>

ParameterSetsNext ==
    \/ H264ProcessParameterSets
    \/ H264Reset
    \/ H264ReturnOutputFrame

\* The H.264 stream parser given parameter sets and slices with ids 0 and 1.
SpecParameterSets == Init /\ [][ParameterSetsNext]_vars

(***************************************************************************)
(* The bytes of a NAL that its handler gives to the readers                *)
(***************************************************************************)
\* The bytes a reader is given, as offsets from the first byte of the NAL:
\* size bytes from first on. The sizes are size_t: a difference below zero
\* wraps around to a size near the largest size_t, which the negative
\* number stands for.
ReaderWindow(first, size) == [first |-> first, size |-> size]

\* H264Bitstream bs(nal + 7, size - 7) of handle_sps_nal.
SpsIdWindow(nal) == ReaderWindow(7, Len(nal) - 7)

\* The zero bytes that while (*data == 0x00) steps over.
RECURSIVE ZeroBytesAhead(_)
ZeroBytesAhead(data) ==
    IF data = <<>> THEN 0
    ELSE IF data[1] # 0 THEN 0
    ELSE 1 + ZeroBytesAhead(Tail(data))

\* H264Bitstream bs_parser(data, size) of at_h264_get_pps_info and of
\* at_h264_get_sps_info, behind the start code.
ParameterSetWindow(nal) ==
    ReaderWindow(ZeroBytesAhead(nal) + 1, Len(nal) - ZeroBytesAhead(nal) - 1)

\* The readers that the handler of a NAL sets up on it.
ReaderWindows(nal) ==
    LET type == NalTypeOf(nal)
    IN CASE type = SEQUENCE_PARAMETER_SET -> { SpsIdWindow(nal) }
         [] type = PICTURE_PARAMETER_SET -> { ParameterSetWindow(nal) }
         [] type \in {IDR_SLICE, NON_IDR_SLICE, PARTITION_A_SLICE} ->
                { ReaderWindow(0, Len(nal)) }
         [] OTHER -> {}

\* NALs as process_buffer cuts them out of a buffer: the start code, the
\* byte with the type and up to MaxNalPayload bytes.
MaxNalPayload == 4
NalHeaderBytes == {103, 104, 101, 65, 6}
NalPayloadBytes == {66, 128}

RECURSIVE NalPayloads(_)
NalPayloads(n) ==
    IF n = 0 THEN { <<>> }
    ELSE NalPayloads(n - 1)
         \cup { Append(p, b) : p \in { q \in NalPayloads(n - 1) : Len(q) = n - 1 },
                               b \in NalPayloadBytes }

\* handle_nal(timestamp, nal, size) on one such NAL by a parser as
\* constructed, with the readers it set up and what the handler came to.
HandleNal ==
    /\ \E header \in NalHeaderBytes, payload \in NalPayloads(MaxNalPayload) :
         LET nal == <<0, 0, 1, header>> \o payload
         IN h264_last' = [op |-> "handle_nal", data |-> nal, n |-> Len(nal),
                          nals |-> <<>>, before |-> H264StreamParser,
                          windows |-> ReaderWindows(nal),
                          changed |-> { o.changed :
                              o \in handle_nal(H264StreamParser, VPUH264Decoder, nal) }]
    /\ UNCHANGED <<qvars, dvars, h264_parser, h264_decoder, bitstream>>

\* Single NALs of every length from four bytes on given to handle_nal.
SpecHandleNal == Init /\ [][HandleNal]_vars

(***************************************************************************)
(* Properties of the queue and of the driver                               *)
(***************************************************************************)
\* C2: every pack that is not the back of the queue is complete, so at most
\* one pack is incomplete and it is the back.
C2_OnlyBackIncomplete ==
    /\ \A i \in 1..Len(queue.m_packs) :
         i < Len(queue.m_packs) => queue.m_packs[i].m_is_complete
    /\ Cardinality({i \in 1..Len(queue.m_packs) : ~queue.m_packs[i].m_is_complete}) <= 1

\* Two packs are queued, the front one partly consumed, the back one open.
C2_Witness ==
    /\ Len(queue.m_packs) >= 2
    /\ ~back(queue).m_is_complete
    /\ front(queue).m_chunks # <<>>
    /\ Len(front(queue).m_chunks) < front(queue).pushed

C5_StepMakesProgress ==
    (last.op = "step" /\ last.pre_has_frame /\ last.pre_consumption
     /\ last.pre_front \in {"unfed", "fed"})
        => (last.frame \/ last.popped >= 1)

\* C6: a call of try_to_step() made while has_frame_for_decoding() holds and
\* the front pack is complete, all of its chunks fed already, returns a frame
\* or removes at least one pack.
C6_TryToStepMakesProgress ==
    (last.op = "try_to_step" /\ last.pre_has_frame /\ last.pre_consumption
     /\ last.pre_front = "fed")
        => (last.frame \/ last.popped >= 1)

\* C7: a call of step() or try_to_step() that opens a decoding session opens
\* it for a pack whose m_can_reopen_decoding flag is set.
C7_OpenedOnlyToReopen == last.opened => last.opened_reopen

(***************************************************************************)
(* The picture boundary rule applied to pairs of slice headers             *)
(***************************************************************************)
\* The mutant leaves idr_pic_id out of the comparison.
are_different_pictures_without_idr_pic_id(prev, next) ==
    \/ prev.frame_num # next.frame_num
    \/ prev.pic_parameter_set_id # next.pic_parameter_set_id
    \/ prev.field_pic_flag # next.field_pic_flag
    \/ prev.bottom_field_flag # next.bottom_field_flag
    \/ prev.ref_nal_idc # next.ref_nal_idc
    \/ prev.pic_order_cnt_lsb # next.pic_order_cnt_lsb
    \/ prev.delta_pic_order_cnt_bottom # next.delta_pic_order_cnt_bottom
    \/ prev.delta_pic_order_cnt # next.delta_pic_order_cnt
    \/ (prev.nal_unit_type = IDR_SLICE) # (next.nal_unit_type = IDR_SLICE)
    \/ prev.redundant_pic_cnt # next.redundant_pic_cnt

\* are_different_pictures is not part of the sources at hand; the rule of
\* H.264 7.4.1.2.4 as the parser's description gives it, over the fields of
\* struct SliceHeaderInfo: any of the listed fields differing makes a new
\* picture.
are_different_pictures(prev, next) ==
    \/ prev.frame_num # next.frame_num
    \/ prev.pic_parameter_set_id # next.pic_parameter_set_id
    \/ prev.field_pic_flag # next.field_pic_flag
    \/ prev.bottom_field_flag # next.bottom_field_flag
    \/ prev.ref_nal_idc # next.ref_nal_idc
    \/ prev.pic_order_cnt_lsb # next.pic_order_cnt_lsb
    \/ prev.delta_pic_order_cnt_bottom # next.delta_pic_order_cnt_bottom
    \/ prev.delta_pic_order_cnt # next.delta_pic_order_cnt
    \/ (prev.nal_unit_type = IDR_SLICE) # (next.nal_unit_type = IDR_SLICE)
    \/ prev.idr_pic_id # next.idr_pic_id
    \/ prev.redundant_pic_cnt # next.redundant_pic_cnt

\* The members of struct SliceHeaderInfo that a slice header fills in.
SliceHeaderFields ==
    {"ref_nal_idc", "nal_unit_type", "slice_type", "pic_parameter_set_id",
     "frame_num", "idr_pic_id", "pic_order_cnt_lsb",
     "delta_pic_order_cnt_bottom", "delta_pic_order_cnt", "redundant_pic_cnt",
     "field_pic_flag", "bottom_field_flag"}

\* The header in which the members of the set are 1 (the flags set, the NAL
\* type that of an IDR slice) and the others 0.
SliceHeaderWith(set) ==
    [ref_nal_idc |-> IF "ref_nal_idc" \in set THEN 1 ELSE 0,
     nal_unit_type |-> IF "nal_unit_type" \in set THEN IDR_SLICE ELSE NON_IDR_SLICE,
     slice_type |-> IF "slice_type" \in set THEN 1 ELSE 0,
     pic_parameter_set_id |-> IF "pic_parameter_set_id" \in set THEN 1 ELSE 0,
     frame_num |-> IF "frame_num" \in set THEN 1 ELSE 0,
     idr_pic_id |-> IF "idr_pic_id" \in set THEN 1 ELSE 0,
     pic_order_cnt_lsb |-> IF "pic_order_cnt_lsb" \in set THEN 1 ELSE 0,
     delta_pic_order_cnt_bottom |->
         IF "delta_pic_order_cnt_bottom" \in set THEN 1 ELSE 0,
     delta_pic_order_cnt |->
         IF "delta_pic_order_cnt" \in set THEN <<0, 1>> ELSE <<0, 0>>,
     redundant_pic_cnt |-> IF "redundant_pic_cnt" \in set THEN 1 ELSE 0,
     field_pic_flag |-> "field_pic_flag" \in set,
     bottom_field_flag |-> "bottom_field_flag" \in set]

\* The header of a non-IDR slice with every value zero, and the headers that
\* differ from it in one member or in two.
SliceHeaders ==
    { SliceHeaderWith({}) }
    \cup { SliceHeaderWith({a, b}) : a \in SliceHeaderFields, b \in SliceHeaderFields }

\* The header of the picture so far: that of the slice seen last.
CurrentPicture ==
    IF h264_last.op = "are_different_pictures" THEN h264_last.next
    ELSE SliceHeaderWith({})

\* The header of the picture so far compared with that of the next slice,
\* which is the header of the picture so far from then on.
ArePicturesDifferent ==
    /\ \E next \in SliceHeaders :
         h264_last' = [op |-> "are_different_pictures", prev |-> CurrentPicture,
                       next |-> next,
                       different |-> are_different_pictures(CurrentPicture, next)]
    /\ UNCHANGED <<h264_parser, h264_decoder, qvars, dvars, bitstream>>

PicturesNext == ArePicturesDifferent

SpecPictures == Init /\ [][PicturesNext]_vars

(***************************************************************************)
(* The bit reader given buffers and asked for bits                         *)
(***************************************************************************)
\* Bytes with their bits all clear, the lowest set, the highest set, mixed
\* and all set; the buffers of up to two of them and some of three, among
\* them the longest run of zero bits ahead of a one bit.
BitstreamBytes == {0, 1, 128, 166, 255}

BitstreamBuffers ==
    {<<>>} \cup { <<a>> : a \in BitstreamBytes }
    \cup { <<a, b>> : a \in BitstreamBytes, b \in BitstreamBytes }
    \cup { <<0, 0, 1>>, <<0, 1, 255>>, <<1, 255, 255>>, <<166, 0, 128>> }

\* The widths asked of read_un_bits.
BitstreamWidths == {0, 1, 3, 8, 13, 16, 24}

\* History of a read: the call, the width asked for, the reader before it
\* and what it returned.
BitstreamCall(op, n, result) ==
    [op |-> op, n |-> n, before |-> bitstream, value |-> result.value,
     error |-> result.error, fetched |-> result.bs.fetched]

\* What a read leaves: the reader as the call left it, the history written.
BitstreamRead(op, n, result) ==
    /\ bitstream' = [result.bs EXCEPT !.fetched = {}]
    /\ h264_last' = BitstreamCall(op, n, result)
    /\ UNCHANGED <<h264_parser, h264_decoder, qvars, dvars>>

\* H264Bitstream bs(data, size), or reset(data, size).
BitstreamReset ==
    /\ \E data \in BitstreamBuffers : bitstream' = H264BitstreamOn(data)
    /\ h264_last' = NoH264Call
    /\ UNCHANGED <<h264_parser, h264_decoder, qvars, dvars>>

ReadUnBits ==
    \E n \in BitstreamWidths :
        BitstreamRead("read_un_bits", n, H264Bitstream_read_un_bits(bitstream, n))

ReadUevBits ==
    BitstreamRead("read_uev_bits", 0, H264Bitstream_read_uev_bits(bitstream))

ReadSevBits ==
    BitstreamRead("read_sev_bits", 0, H264Bitstream_read_sev_bits(bitstream))

BitstreamNext ==
    \/ BitstreamReset
    \/ ReadUnBits
    \/ ReadUevBits
    \/ ReadSevBits

\* Any sequence of reads on any of the buffers.
SpecBitstream == Init /\ [][BitstreamNext]_vars

(***************************************************************************)
(* Exp-Golomb codes written out and read back                              *)
(***************************************************************************)
\* floor(log2(v)) for v >= 1.
RECURSIVE FloorLog2(_)
FloorLog2(v) == IF v < 2 THEN 0 ELSE 1 + FloorLog2(v \div 2)

\* v in width binary digits, the most significant first.
RECURSIVE BinaryDigits(_, _)
BinaryDigits(v, width) ==
    IF width = 0 THEN <<>>
    ELSE Append(BinaryDigits(v \div 2, width - 1), v % 2)

RECURSIVE ZeroBits(_)
ZeroBits(count) == IF count = 0 THEN <<>> ELSE <<0>> \o ZeroBits(count - 1)

\* The code of n: leadingZeroBits zero bits, then n + 1 in
\* leadingZeroBits + 1 binary digits, which start with the one bit.
UevCodeBits(n) ==
    ZeroBits(FloorLog2(n + 1)) \o BinaryDigits(n + 1, FloorLog2(n + 1) + 1)

\* Bits in stream order as bytes, the last byte filled up with one bits.
RECURSIVE BytesOfBits(_)
BytesOfBits(bits) ==
    IF Len(bits) = 0 THEN <<>>
    ELSE IF Len(bits) < 8 THEN BytesOfBits(Append(bits, 1))
    ELSE <<128 * bits[1] + 64 * bits[2] + 32 * bits[3] + 16 * bits[4]
           + 8 * bits[5] + 4 * bits[6] + 2 * bits[7] + bits[8]>>
         \o BytesOfBits(SubSeq(bits, 9, Len(bits)))

\* The values whose codes are read: the small ones, and those around every
\* change of the length of the code up to 2^20.
UevValues ==
    (0 .. 33) \cup { (2 ^ k) - 2 : k \in 6 .. 20 }
    \cup { (2 ^ k) - 1 : k \in 6 .. 20 } \cup { 2 ^ k : k \in 6 .. 20 }

\* The bits of other syntax elements read ahead of the code, so that the
\* code starts anywhere in a byte.
UevLeadBits == {0, 3, 5, 7}

\* A reader on a buffer that has the code of n after lead one bits, with
\* the lead bits read.
ExpGolombCodeGiven ==
    /\ \E n \in UevValues, lead \in UevLeadBits :
           /\ bitstream' =
                  H264Bitstream_read_un_bits(
                      H264BitstreamOn(BytesOfBits(BinaryDigits((2 ^ lead) - 1, lead)
                                                  \o UevCodeBits(n))),
                      lead).bs
           /\ h264_last' = [op |-> "exp_golomb_code", n |-> n, lead |-> lead]
    /\ UNCHANGED <<h264_parser, h264_decoder, qvars, dvars>>

\* What reading the code left: the reader, and in the history the value
\* coded, the value read and the zero bits the code starts with.
ExpGolombRead(op, result, leading_zero_bits) ==
    /\ bitstream' = result.bs
    /\ h264_last' = [op |-> op, n |-> h264_last.n, lead |-> h264_last.lead,
                     value |-> result.value, error |-> result.error,
                     leading_zero_bits |-> leading_zero_bits]
    /\ UNCHANGED <<h264_parser, h264_decoder, qvars, dvars>>

ExpGolombReadUev ==
    /\ h264_last.op = "exp_golomb_code"
    /\ ExpGolombRead("read_uev_bits", H264Bitstream_read_uev_bits(bitstream),
                     LeadingZeroBits(bitstream.data, h264_last.lead))

ExpGolombReadSev ==
    /\ h264_last.op = "exp_golomb_code"
    /\ ExpGolombRead("read_sev_bits", H264Bitstream_read_sev_bits(bitstream),
                     LeadingZeroBits(bitstream.data, h264_last.lead))

ExpGolombNext ==
    \/ ExpGolombCodeGiven
    \/ ExpGolombReadUev
    \/ ExpGolombReadSev

SpecExpGolomb == Init /\ [][ExpGolombNext]_vars

(***************************************************************************)
(* Exp-Golomb codes that start with long runs of zero bits                 *)
(***************************************************************************)
\* What a call of read_uev_bits comes to: it returns a value or the error,
\* or an assert ends the program. asked is the width that read_un_bits is
\* called with for the suffix bits, -1 where the call is not reached.
UevOutcome(outcome, value, asked) ==
    [outcome |-> outcome, value |-> value, asked |-> asked]

\* auto suffix_bits = read_un_bits(leading_zero_bits) and the lines after
\* it. asserts tells the build: with the asserts compiled in, assert(n <= 24)
\* of read_un_bits ends the program on entry and
\* assert(leading_zero_bits < 23) ends it after the suffix bits have been
\* read without error; with NDEBUG neither does anything.
UevSuffixBits(bs, leading_zero_bits, asserts) ==
    IF asserts /\ leading_zero_bits > 24
    THEN UevOutcome("abort", 0, leading_zero_bits)
    ELSE IF H264Bitstream_read_un_bits(bs, leading_zero_bits).error
    THEN UevOutcome("error", 0, leading_zero_bits)
    ELSE IF asserts /\ ~(leading_zero_bits < 23)
    THEN UevOutcome("abort", 0, leading_zero_bits)
    ELSE UevOutcome("value",
                    UevResult(leading_zero_bits,
                              H264Bitstream_read_un_bits(
                                  bs, leading_zero_bits)).value,
                    leading_zero_bits)

\* The while (1) loop of read_uev_bits: nothing bounds leading_zero_bits
\* but the end of the data.
RECURSIVE UevLeadingZeroBits(_, _, _)
UevLeadingZeroBits(leading_0_bit, leading_zero_bits, asserts) ==
    IF leading_0_bit.error THEN UevOutcome("error", 0, -1)
    ELSE IF leading_0_bit.value # 0
    THEN UevSuffixBits(leading_0_bit.bs, leading_zero_bits, asserts)
    ELSE UevLeadingZeroBits(H264Bitstream_read_un_bits(leading_0_bit.bs, 1),
                            leading_zero_bits + 1, asserts)

\* read_uev_bits in either build.
read_uev_bits_built(this, asserts) ==
    UevLeadingZeroBits(H264Bitstream_read_un_bits(this, 1), 0, asserts)

\* The runs of zero bits that the codes start with: short ones, and those
\* around the 23 zero bits of a start code and the 24 bits of read_un_bits.
\* From 26 on the shifts of read_un_bits are not defined for a 32-bit
\* m_bits; the runs stay below.
LongCodeZeroBits == {0, 3, 20, 21, 22, 23, 24, 25}

\* The suffix bits as a number: all clear, the lowest set, a mixed pattern,
\* all set.
LongCodeSuffixes(zero_bits) == {0, 1, 5, (2 ^ zero_bits) - 1}

\* The bytes of the code: the zero bits, the one bit, and the suffix bits.
LongCodeBytes(zero_bits, suffix) ==
    BytesOfBits(ZeroBits(zero_bits) \o <<1>>
                \o BinaryDigits(suffix % (2 ^ zero_bits), zero_bits))

\* The buffer: the bytes of the code, all of them or all but the last.
LongCodeBuffer(zero_bits, suffix, whole) ==
    SubSeq(LongCodeBytes(zero_bits, suffix), 1,
           Len(LongCodeBytes(zero_bits, suffix)) - (IF whole THEN 0 ELSE 1))

\* read_uev_bits on a reader at the start of such a buffer.
ReadLongCode ==
    /\ \E zero_bits \in LongCodeZeroBits, whole \in BOOLEAN, asserts \in BOOLEAN :
         \E suffix \in LongCodeSuffixes(zero_bits) :
            h264_last' =
                [op |-> "read_uev_bits_of_long_code", zero_bits |-> zero_bits,
                 suffix |-> suffix % (2 ^ zero_bits), whole |-> whole,
                 asserts |-> asserts,
                 result |-> read_uev_bits_built(
                                H264BitstreamOn(
                                    LongCodeBuffer(zero_bits, suffix, whole)),
                                asserts)]
    /\ UNCHANGED <<h264_parser, h264_decoder, bitstream, qvars, dvars>>

SpecLongCodes == Init /\ [][ReadLongCode]_vars

(***************************************************************************)
(* Sequence parameter sets written out and parsed                          *)
(***************************************************************************)
\* The fields of a sequence parameter set that the dimensions come from;
\* here those of a 1920x1088 stream of frames without cropping.
SpsFullHd ==
    [pic_width_in_mbs_minus1 |-> 119, pic_height_in_map_units_minus1 |-> 67,
     frame_mbs_only_flag |-> 1, frame_cropping_flag |-> 0,
     frame_crop_left_offset |-> 0, frame_crop_right_offset |-> 0,
     frame_crop_top_offset |-> 0, frame_crop_bottom_offset |-> 0]

\* The values given to each of the fields.
SpsFieldValues ==
    [pic_width_in_mbs_minus1 |-> {0, 19, 119},
     pic_height_in_map_units_minus1 |-> {0, 33, 67},
     frame_mbs_only_flag |-> {0, 1}, frame_cropping_flag |-> {0, 1},
     frame_crop_left_offset |-> {0, 2, 9}, frame_crop_right_offset |-> {0, 2, 9},
     frame_crop_top_offset |-> {0, 3}, frame_crop_bottom_offset |-> {0, 3}]

\* The four crop offsets as bits, present with frame_cropping_flag only.
SpsCropBits(f) ==
    IF f.frame_cropping_flag = 0 THEN <<>>
    ELSE UevCodeBits(f.frame_crop_left_offset)
         \o UevCodeBits(f.frame_crop_right_offset)
         \o UevCodeBits(f.frame_crop_top_offset)
         \o UevCodeBits(f.frame_crop_bottom_offset)

\* The bits after level_idc: seq_parameter_set_id 0,
\* log2_max_frame_num_minus4 0, pic_order_cnt_type 0,
\* log2_max_pic_order_cnt_lsb_minus4 0, num_ref_frames 1,
\* gaps_in_frame_num_value_allowed_flag 0, the dimensions,
\* frame_mbs_only_flag, mb_adaptive_frame_field_flag 0 where it is present,
\* direct_8x8_inference_flag 1, frame_cropping_flag and the crop offsets,
\* vui_parameters_present_flag 0.
SpsBits(f) ==
    UevCodeBits(0) \o UevCodeBits(0) \o UevCodeBits(0) \o UevCodeBits(0)
    \o UevCodeBits(1) \o <<0>>
    \o UevCodeBits(f.pic_width_in_mbs_minus1)
    \o UevCodeBits(f.pic_height_in_map_units_minus1)
    \o <<f.frame_mbs_only_flag>>
    \o (IF f.frame_mbs_only_flag = 0 THEN <<0>> ELSE <<>>)
    \o <<1, f.frame_cropping_flag>> \o SpsCropBits(f) \o <<0>>

\* The NAL: start code, header of a sequence parameter set, profile_idc 66
\* (baseline), no constraint flags, level_idc 30 and the bits.
SpsNalOf(f) == <<0, 0, 1, 103, 66, 0, 30>> \o BytesOfBits(SpsBits(f))

\* The fields of the sequence parameter set parsed last.
SpsFieldsGiven ==
    IF h264_last.op = "at_h264_get_sps_info" THEN h264_last.fields
    ELSE SpsFullHd

\* at_h264_get_sps_info on the NAL with the fields f; the history keeps the
\* fields and the SpsNalInfo.
SpsParsed(f, sps_info) ==
    /\ h264_last' = [op |-> "at_h264_get_sps_info", fields |-> f,
                     sps_info |-> sps_info]
    /\ UNCHANGED <<h264_parser, h264_decoder, bitstream, qvars, dvars>>

\* The stream goes on with a sequence parameter set that has one field set
\* to one of its values.
GetSpsInfo ==
    \E field \in DOMAIN SpsFieldValues :
        \E value \in SpsFieldValues[field] :
            SpsParsed([SpsFieldsGiven EXCEPT ![field] = value],
                      at_h264_get_sps_info(
                          SpsNalOf([SpsFieldsGiven EXCEPT ![field] = value])))

SpecSps == Init /\ [][GetSpsInfo]_vars

(***************************************************************************)
(* Sequence parameter sets with scaling lists written out and parsed       *)
(***************************************************************************)
\* The code of the signed value v: the unsigned code 2v - 1 for a positive
\* v, -2v otherwise.
SevCodeBits(v) == UevCodeBits(IF v > 0 THEN 2 * v - 1 ELSE 0 - 2 * v)

RECURSIVE DeltaScaleBits(_)
DeltaScaleBits(deltas) ==
    IF deltas = <<>> THEN <<>>
    ELSE SevCodeBits(deltas[1]) \o DeltaScaleBits(Tail(deltas))

\* A scaling list is given by its delta_scale values; <<>> is a list that
\* is not present. The lists of 16: one that ends at once (the first
\* delta_scale makes nextScale 0), one with two coefficients 8 that ends
\* then, one that rises to 10 and ends. The lists of 64: one that ends at
\* once and one with a coefficient 8 that ends then.
ScalingLists16 == { <<>>, <<-8>>, <<0, 0, -8>>, <<2, -10>> }
ScalingLists64 == { <<>>, <<-8>>, <<0, -8>> }

\* seq_scaling_list_present_flag and the list.
ScalingListBits(deltas) ==
    IF deltas = <<>> THEN <<0>> ELSE <<1>> \o DeltaScaleBits(deltas)

\* A sequence parameter set of the High profile with chroma_format_idc 1:
\* the lists 0 and 1 (of 16) and 6 (of 64) as given, the others not present.
ScalingSps ==
    [list0 |-> <<>>, list1 |-> <<>>, list6 |-> <<>>,
     pic_width_in_mbs_minus1 |-> 119, pic_height_in_map_units_minus1 |-> 67]

ScalingSpsValues ==
    [list0 |-> ScalingLists16, list1 |-> ScalingLists16 \ {<<2, -10>>},
     list6 |-> ScalingLists64,
     pic_width_in_mbs_minus1 |-> {19, 119},
     pic_height_in_map_units_minus1 |-> {14, 67}]

\* The bits after level_idc: seq_parameter_set_id 0, chroma_format_idc 1,
\* bit_depth_luma_minus8 0, bit_depth_chroma_minus8 0,
\* lossless_qprime_y_zero_flag 0, seq_scaling_matrix_present_flag 1, the
\* eight lists, and the fields of SpsBits that follow seq_parameter_set_id,
\* in frames and without cropping.
ScalingSpsBits(f) ==
    UevCodeBits(0) \o UevCodeBits(1) \o UevCodeBits(0) \o UevCodeBits(0)
    \o <<0, 1>>
    \o ScalingListBits(f.list0) \o ScalingListBits(f.list1) \o <<0, 0, 0, 0>>
    \o ScalingListBits(f.list6) \o <<0>>
    \o Tail(SpsBits([SpsFullHd EXCEPT
            !.pic_width_in_mbs_minus1 = f.pic_width_in_mbs_minus1,
            !.pic_height_in_map_units_minus1 = f.pic_height_in_map_units_minus1]))

\* The NAL: start code, header of a sequence parameter set, profile_idc 100
\* (High), no constraint flags, level_idc 40 and the bits.
ScalingSpsNalOf(f) == <<0, 0, 1, 103, 100, 0, 40>> \o BytesOfBits(ScalingSpsBits(f))

ScalingSpsGiven ==
    IF h264_last.op = "scaling_lists" THEN h264_last.fields ELSE ScalingSps

\* at_h264_get_sps_info on such a NAL, one field changed at a time.
GetSpsInfoWithScalingLists ==
    /\ \E field \in DOMAIN ScalingSpsValues :
         \E value \in ScalingSpsValues[field] :
            LET f == [ScalingSpsGiven EXCEPT ![field] = value]
            IN h264_last' = [op |-> "scaling_lists", fields |-> f,
                             sps_info |-> at_h264_get_sps_info(ScalingSpsNalOf(f))]
    /\ UNCHANGED <<h264_parser, h264_decoder, bitstream, qvars, dvars>>

SpecScalingLists == Init /\ [][GetSpsInfoWithScalingLists]_vars

(***************************************************************************)
(* Slice headers written out and their initial part parsed                 *)
(***************************************************************************)
\* The fields that the initial part of a slice header carries; here the
\* first slice, of type I, of an IDR picture.
SliceFieldsOfIdr ==
    [nal_ref_idc |-> 3, nal_unit_type |-> 5, first_mb_in_slice |-> 0,
     slice_type |-> 2, pic_parameter_set_id |-> 0]

\* The values given to each of the fields: every slice type of the
\* standard's table (0 to 9) and some above it, parameter set ids up to and
\* beyond the last one allowed.
SliceFieldValues ==
    [nal_ref_idc |-> {0, 3}, nal_unit_type |-> {1, 5},
     first_mb_in_slice |-> {0, 7},
     slice_type |-> 0 .. 12 \cup {14, 15, 30},
     pic_parameter_set_id |-> {0, 1, 255, 256}]

\* The NAL: start code, the header byte, then first_mb_in_slice, slice_type
\* and pic_parameter_set_id as Exp-Golomb codes.
SliceNalOf(f) ==
    <<0, 0, 1>>
    \o BytesOfBits(<<0>> \o BinaryDigits(f.nal_ref_idc, 2)
                   \o BinaryDigits(f.nal_unit_type, 5)
                   \o UevCodeBits(f.first_mb_in_slice)
                   \o UevCodeBits(f.slice_type)
                   \o UevCodeBits(f.pic_parameter_set_id))

\* The fields of the slice header parsed last.
SliceFieldsGiven ==
    IF h264_last.op = "at_h264_get_initial_slice_header_info"
    THEN h264_last.fields
    ELSE SliceFieldsOfIdr

\* at_h264_get_initial_slice_header_info on the NAL with the fields f; the
\* history keeps the fields and the SliceHeaderInfo.
SliceHeaderParsed(f, slice_header_info) ==
    /\ h264_last' = [op |-> "at_h264_get_initial_slice_header_info",
                     fields |-> f, slice_header_info |-> slice_header_info]
    /\ UNCHANGED <<h264_parser, h264_decoder, bitstream, qvars, dvars>>

\* The stream goes on with a slice that has one field of its header set to
\* one of its values.
GetInitialSliceHeaderInfo ==
    \E field \in DOMAIN SliceFieldValues :
        \E value \in SliceFieldValues[field] :
            SliceHeaderParsed(
                [SliceFieldsGiven EXCEPT ![field] = value],
                at_h264_get_initial_slice_header_info(
                    SliceNalOf([SliceFieldsGiven EXCEPT ![field] = value])))

SpecSliceHeader == Init /\ [][GetInitialSliceHeaderInfo]_vars

(***************************************************************************)
(* Whole slice headers written out and parsed with their parameter sets    *)
(***************************************************************************)
\* Syntax elements of a slice header up to redundant_pic_cnt, with the
\* fields of the parameter sets that say which of them the header carries;
\* here the first slice of an IDR picture of a stream of frames.
FullSliceFieldsOfIdr ==
    [nal_unit_type |-> 5, slice_type |-> 2, field_pic_flag |-> 0,
     idr_pic_id |-> 0, delta_pic_order_cnt_bottom |-> 0,
     frame_mbs_only_flag |-> TRUE, pic_order_cnt_type |-> 2,
     pic_order_present_flag |-> FALSE,
     redundant_pic_cnt_present_flag |-> FALSE]

\* The values given to each of them: IDR and other slices, of type P and I.
FullSliceFieldValues ==
    [nal_unit_type |-> {1, 5}, slice_type |-> {0, 2}, field_pic_flag |-> {0, 1},
     idr_pic_id |-> {0, 1}, delta_pic_order_cnt_bottom |-> {-1, 0},
     frame_mbs_only_flag |-> BOOLEAN, pic_order_cnt_type |-> {0, 2},
     pic_order_present_flag |-> BOOLEAN,
     redundant_pic_cnt_present_flag |-> BOOLEAN]

\* The parameter sets of the stream: those of SpsA and PpsA with the fields
\* that decide on the syntax of the slice header as f has them.
FullSliceSps(f) ==
    [at_h264_get_sps_info(SpsA) EXCEPT
         !.frame_mbs_only_flag = f.frame_mbs_only_flag,
         !.pic_order_cnt_type = f.pic_order_cnt_type]

FullSlicePps(f) ==
    [at_h264_get_pps_info(PpsA) EXCEPT
         !.pic_order_present_flag = f.pic_order_present_flag,
         !.redundant_pic_cnt_present_flag = f.redundant_pic_cnt_present_flag]

\* The bits that follow pic_parameter_set_id, as 7.3.3 of the standard has
\* them: frame_num in four bits, field_pic_flag and bottom_field_flag of a
\* stream with fields, idr_pic_id of an IDR slice, pic_order_cnt_lsb in four
\* bits with delta_pic_order_cnt_bottom of a frame, redundant_pic_cnt (the
\* three of them 0 where no field of f gives them); of a P slice num_ref_idx_active_override_flag and
\* ref_pic_list_reordering_flag_l0, both 0; then the two flags of
\* dec_ref_pic_marking() of an IDR slice or adaptive_ref_pic_marking_mode_flag,
\* all 0, and slice_qp_delta, 0.
FullSliceBits(f) ==
    BinaryDigits(0, 4)
    \o (IF f.frame_mbs_only_flag THEN <<>>
        ELSE IF f.field_pic_flag = 1 THEN <<1, 0>> ELSE <<0>>)
    \o (IF f.nal_unit_type = 5 THEN UevCodeBits(f.idr_pic_id) ELSE <<>>)
    \o (IF f.pic_order_cnt_type # 0 THEN <<>>
        ELSE BinaryDigits(0, 4)
             \o (IF f.pic_order_present_flag
                    /\ (f.frame_mbs_only_flag \/ f.field_pic_flag = 0)
                 THEN SevCodeBits(f.delta_pic_order_cnt_bottom) ELSE <<>>))
    \o (IF f.redundant_pic_cnt_present_flag
        THEN UevCodeBits(0) ELSE <<>>)
    \o (IF f.slice_type = 0 THEN <<0, 0>> ELSE <<>>)
    \o (IF f.nal_unit_type = 5 THEN <<0, 0>> ELSE <<0>>)
    \o <<1>>

\* The NAL: start code, the header byte with nal_ref_idc 3, first_mb_in_slice
\* 0, slice_type, pic_parameter_set_id 0 and the bits above.
FullSliceNalOf(f) ==
    <<0, 0, 1>>
    \o BytesOfBits(<<0, 1, 1>> \o BinaryDigits(f.nal_unit_type, 5)
                   \o UevCodeBits(0) \o UevCodeBits(f.slice_type)
                   \o UevCodeBits(0) \o FullSliceBits(f))

\* The fields of the slice header parsed last.
FullSliceFieldsGiven ==
    IF h264_last.op = "at_h264_get_full_slice_header_info"
    THEN h264_last.fields
    ELSE FullSliceFieldsOfIdr

\* at_h264_get_full_slice_header_info as parse_slice_header calls it, on the
\* NAL with the fields f: slice_header_info is the local variable that
\* nothing initialises, so its field_pic_flag holds either value on entry.
\* The history keeps the fields, that value and the SliceHeaderInfo.
FullSliceHeaderParsed(f, on_entry) ==
    /\ h264_last' = [op |-> "at_h264_get_full_slice_header_info",
                     fields |-> f, on_entry |-> on_entry,
                     slice_header_info |->
                         at_h264_get_full_slice_header_info(
                             FullSliceNalOf(f), FullSliceSps(f),
                             FullSlicePps(f), on_entry)]
    /\ UNCHANGED <<h264_parser, h264_decoder, bitstream, qvars, dvars>>

\* The stream goes on with a slice that has one of the fields set to one of
\* its values.
GetFullSliceHeaderInfo ==
    \E field \in DOMAIN FullSliceFieldValues :
        \E value \in FullSliceFieldValues[field] :
            \E on_entry \in BOOLEAN :
                FullSliceHeaderParsed(
                    [FullSliceFieldsGiven EXCEPT ![field] = value], on_entry)

SpecFullSliceHeader == Init /\ [][GetFullSliceHeaderInfo]_vars

(***************************************************************************)
(* Buffers searched for start codes                                        *)
(***************************************************************************)
\* The bytes that the buffers are made of: those of a start code and
\* another one.
StartCodeBytes == {0, 1, 170}

\* Two NALs, the first after a start code with three zero bytes.
StartCodeExample == <<0, 0, 0, 1, 170, 0, 0, 1, 187>>

\* The buffer searched last, the empty one to begin with.
StartCodeBuffer ==
    IF h264_last.op = "at_h264_next_start_code" THEN h264_last.data ELSE <<>>

\* at_h264_next_start_code(data + ptr, data + Len(data)); the history keeps
\* the buffer, where the search began and what it returned.
NextStartCodeOf(data, ptr) ==
    /\ h264_last' = [op |-> "at_h264_next_start_code", data |-> data,
                     ptr |-> ptr,
                     found |-> StartCodeScan(data, ptr, StartCodeState)]
    /\ UNCHANGED <<h264_parser, h264_decoder, bitstream, qvars, dvars>>

\* A search of the buffer searched last from any of its offsets.
NextStartCode ==
    \E ptr \in 0 .. Len(StartCodeBuffer) : NextStartCodeOf(StartCodeBuffer, ptr)

\* A search of the buffer searched last with one more byte in it.
NextStartCodeWithMoreData ==
    /\ Len(StartCodeBuffer) < MaxScanBytes
    /\ \E byte \in StartCodeBytes, ptr \in 0 .. Len(StartCodeBuffer) + 1 :
           NextStartCodeOf(Append(StartCodeBuffer, byte), ptr)

\* A search of the buffer with the two NALs.
NextStartCodeOfExample ==
    \E ptr \in 0 .. Len(StartCodeExample) :
        NextStartCodeOf(StartCodeExample, ptr)

StartCodeNext ==
    \/ NextStartCode
    \/ NextStartCodeWithMoreData
    \/ NextStartCodeOfExample

SpecStartCode == Init /\ [][StartCodeNext]_vars

(***************************************************************************)
(* Properties of the H.264 parser                                          *)
(***************************************************************************)
\* The NAL that the entry i of the last process_buffer call stands for.
NalOf(i) ==
    SubSeq(h264_last.data, h264_last.nals[i].offset + 1,
           h264_last.nals[i].offset + h264_last.nals[i].size)

\* An IDR slice whose header parses with the parameter sets it refers to
\* found in the tables: the NAL that can restart decoding.
RestartsDecoding(e) == e.type = IDR_SLICE /\ e.header_ok

\* C1: from the NAL on at which the parser went out of sync, through the
\* rest of the buffer and the buffers after it, no NAL reaches the decoder
\* and every NAL is consumed with the parser left out of sync, until an IDR
\* slice comes whose header parses with its PPS and SPS found in the tables;
\* only such a slice, fed and accepted, makes the parser synchronized again.
C1_DiscardsUntilIdr ==
    h264_last.op = "process_buffer" =>
        /\ \A i \in 1..Len(h264_last.nals) :
             /\ h264_last.nals[i].synchronized =
                    IF i = 1 THEN h264_last.before.m_synchronized
                    ELSE h264_last.nals[i - 1].synchronized_after
             /\ ~h264_last.nals[i].synchronized =>
                  /\ h264_last.nals[i].feed_called =>
                         RestartsDecoding(h264_last.nals[i])
                  /\ ~RestartsDecoding(h264_last.nals[i]) =>
                         /\ h264_last.nals[i].consumed
                         /\ h264_last.nals[i].parts = <<>>
                         /\ ~h264_last.nals[i].synchronized_after
                  /\ h264_last.nals[i].synchronized_after =>
                         /\ RestartsDecoding(h264_last.nals[i])
                         /\ h264_last.nals[i].feed_called
                         /\ h264_last.nals[i].consumed
        /\ h264_parser.m_synchronized =
               IF h264_last.nals = <<>> THEN FALSE
               ELSE h264_last.nals[Len(h264_last.nals)].synchronized_after

\* A synchronized parser lost sync at a slice whose header did not parse,
\* discarded an SEI and a slice that is not an IDR slice, and was
\* synchronized again by the IDR slice that followed and was fed.
C1_Witness ==
    /\ h264_last.op = "process_buffer"
    /\ Len(h264_last.nals) = 4
    /\ h264_last.nals[1].synchronized
    /\ ~h264_last.nals[1].synchronized_after
    /\ h264_last.nals[2].type = SUPPLEMENTAL_ENHANCED_INFORMATION
    /\ h264_last.nals[3].type = NON_IDR_SLICE
    /\ \A i \in {2, 3} : /\ ~h264_last.nals[i].synchronized
                         /\ h264_last.nals[i].consumed
                         /\ ~h264_last.nals[i].feed_called
    /\ h264_last.nals[4].type = IDR_SLICE
    /\ h264_last.nals[4].feed_called
    /\ h264_last.nals[4].synchronized_after

\* The NAL types whose handlers return what the decoder returned.
PassedToDecoder ==
    { NON_IDR_SLICE, PARTITION_A_SLICE, PARTITION_B_SLICE, PARTITION_C_SLICE,
      IDR_SLICE, SUPPLEMENTAL_ENHANCED_INFORMATION, END_OF_SEQUENCE }
        \cup (FIRST_RESERVED_TYPE..LAST_RESERVED_TYPE)

\* C4: process_buffer returns n with 0 <= n <= length. The NALs it passes to
\* handle_nal are the NALs of the buffer from the first start code on, each
\* once and in stream order, up to the first one that is refused. It returns
\* n < length only when a NAL was refused by the decoder; n is then the
\* offset of the start code of that NAL, which is the last one handled.
C4_ReturnsOffsetOfRefusedNal ==
    h264_last.op = "process_buffer" =>
        /\ 0 <= h264_last.n
        /\ h264_last.n <= Len(h264_last.data)
        /\ \A i \in 1..Len(h264_last.nals) :
             /\ h264_last.nals[i].offset =
                    IF i = 1 THEN at_h264_next_start_code(h264_last.data, 0)
                    ELSE h264_last.nals[i - 1].offset + h264_last.nals[i - 1].size
             /\ h264_last.nals[i].offset >= 0
             /\ h264_last.nals[i].size >= 4
             /\ SubSeq(NalOf(i), 1, 3) = <<0, 0, 1>>
             /\ \A k \in 1..(h264_last.nals[i].size - 4) :
                    SubSeq(NalOf(i), k + 1, k + 3) = <<0, 0, 1>>
                        => k + 4 > h264_last.nals[i].size
             /\ i < Len(h264_last.nals) => h264_last.nals[i].consumed
        /\ h264_last.nals = <<>> =>
               /\ at_h264_next_start_code(h264_last.data, 0) = -1
               /\ h264_last.n = Len(h264_last.data)
        /\ h264_last.nals # <<>> =>
               IF h264_last.nals[Len(h264_last.nals)].consumed
               THEN /\ h264_last.n = Len(h264_last.data)
                    /\ h264_last.nals[Len(h264_last.nals)].offset
                           + h264_last.nals[Len(h264_last.nals)].size
                       = Len(h264_last.data)
               ELSE /\ h264_last.n = h264_last.nals[Len(h264_last.nals)].offset
                    /\ h264_last.n < Len(h264_last.data)
                    /\ h264_last.nals[Len(h264_last.nals)].type \in PassedToDecoder

\* The decoder accepted the first NAL of a buffer and refused the second,
\* which a third follows: the call returned the offset of the second.
C4_Witness ==
    /\ h264_last.op = "process_buffer"
    /\ Len(h264_last.nals) = 2
    /\ h264_last.nals[1].feed_called
    /\ ~h264_last.nals[2].consumed
    /\ h264_last.n = h264_last.nals[2].offset
    /\ h264_last.n > 0
    /\ h264_last.n + h264_last.nals[2].size < Len(h264_last.data)

\* first_mb_in_slice of a slice NAL with a start code of three bytes.
FirstMbInSlice(nal) ==
    read_uev_bits(H264Bitstream(SubSeq(nal, 5, Len(nal)))).value

\* C8: the first slice of an IDR picture reaches the decoder with the SPS and
\* the PPS it refers to ahead of it, activated already or not. The SPS counts
\* as handed over as well where the call only opened the new session with it.
C8_IdrCarriesSpsAndPps ==
    h264_last.op = "process_buffer" =>
        \A i \in 1..Len(h264_last.nals) :
            (/\ h264_last.nals[i].type = IDR_SLICE
             /\ h264_last.nals[i].feed_called
             /\ FirstMbInSlice(NalOf(i)) = 0)
                => /\ \/ h264_last.nals[i].parts[1] # <<>>
                      \/ h264_last.nals[i].open_parts # <<>>
                   /\ h264_last.nals[i].parts[2] # <<>>
                   /\ h264_last.nals[i].parts[3] = NalOf(i)

\* C9: the update of a parameter set slot with the bytes it holds already
\* reports no change and leaves the slot and the activated ids as they were;
\* with bytes that differ in length or content it reports a change and the
\* slot holds the new bytes.
C9_UpdateComparesBytes ==
    h264_last.op = "process_buffer" =>
        \A i \in 1..Len(h264_last.nals) :
            h264_last.nals[i].changed # "none" =>
                IF /\ h264_last.nals[i].slot_before.m_size = Len(NalOf(i))
                   /\ h264_last.nals[i].slot_before.m_data = NalOf(i)
                THEN /\ h264_last.nals[i].changed = "unchanged"
                     /\ h264_last.nals[i].slot_after = h264_last.nals[i].slot_before
                     /\ h264_last.nals[i].activated_after =
                            h264_last.nals[i].activated
                ELSE /\ h264_last.nals[i].changed = "changed"
                     /\ h264_last.nals[i].slot_after.m_data = NalOf(i)
                     /\ h264_last.nals[i].slot_after.m_size = Len(NalOf(i))

\* The SPS that is activated came again with the same bytes: nothing
\* changed and both parameter sets stayed activated.
C9_Witness ==
    /\ h264_last.op = "process_buffer"
    /\ \E i \in 1..Len(h264_last.nals) :
         /\ h264_last.nals[i].type = SEQUENCE_PARAMETER_SET
         /\ h264_last.nals[i].changed = "unchanged"
         /\ h264_last.nals[i].slot_before.m_data = NalOf(i)
         /\ h264_last.nals[i].activated = <<0, 0>>
         /\ h264_last.nals[i].activated_after = <<0, 0>>

PpsIdRead(nal) == read_uev_bits(H264Bitstream(SubSeq(nal, 5, Len(nal))))

PpsSpsIdRead(pps_id) == read_uev_bits(pps_id.bs)

\* A PPS whose pic_parameter_set_id or seq_parameter_set_id is out of range,
\* or whose seq_parameter_set_id names an empty slot of the SPS table.
PpsRefersToNothing(this, pps_id, sps_id) ==
    ~pps_id.error /\ ~sps_id.error
    /\ \/ pps_id.value \notin 0..255
       \/ sps_id.value \notin 0..31
       \/ this.m_sequence_parameter_sets[sps_id.value].m_size = 0

\* A process_buffer call on a buffer that is one PPS NAL.
OnePpsNal ==
    /\ h264_last.op = "process_buffer"
    /\ Len(h264_last.nals) = 1
    /\ h264_last.nals[1].type = PICTURE_PARAMETER_SET
    /\ h264_last.nals[1].offset = 0

C11_EmptySlotSeen ==
    /\ OnePpsNal
    /\ h264_last.data = PpsA
    /\ h264_last.before.m_sequence_parameter_sets[0].m_size = 0

C11_PpsIdTooBigSeen ==
    /\ OnePpsNal
    /\ h264_last.data = PpsIdTooBig
    /\ PpsIdRead(h264_last.data).value = 256

\* The NAL types that carry nothing the decoding needs: SEI, the reserved
\* range, the unspecified ranges, access unit delimiter and filler.
IgnorableTypes ==
    {SUPPLEMENTAL_ENHANCED_INFORMATION, ACCESS_UNIT_DELIMITER, FILLER,
     UNSPECIFIED_ZERO}
    \cup (FIRST_RESERVED_TYPE..LAST_RESERVED_TYPE)
    \cup (FIRST_UNSPECIFIED_TYPE..LAST_UNSPECIFIED_TYPE)

\* C12: a SEI, reserved, unspecified, access unit delimiter or filler NAL is
\* consumed and the decoder's feed is not called for it, whether the parser
\* is synchronized or not.
C12_IgnorableNeverFed ==
    h264_last.op = "process_buffer" =>
        \A i \in DOMAIN h264_last.nals :
            h264_last.nals[i].type \in IgnorableTypes
                => /\ h264_last.nals[i].consumed
                   /\ ~h264_last.nals[i].feed_called

(***************************************************************************)
(* Properties of the free callbacks                                        *)
(***************************************************************************)
\* The last chunk of the back pack, where the queue has one.
HasLastChunk(q) == ~empty(q) /\ back(q).m_chunks # <<>>

LastChunk(q) == back(q).m_chunks[Len(back(q).m_chunks)]

\* No chunk of the buffer that a call of attach_free_callback ends is in the
\* queue: the queue is empty, the back pack has no chunks, or its last chunk
\* came from an earlier buffer.
NoChunkRetained ==
    \/ ~HasLastChunk(last.before)
    \/ LastChunk(last.before).data # <<last.buffer>>

\* C13: attach_free_callback(cb) for a buffer of which no chunk was retained
\* calls cb at once and attaches it to no chunk; otherwise cb is attached to
\* the last chunk of the last pack.
C13_CallbackOfDiscardedBufferCalled ==
    (last.op = "attach_free_callback" /\ last.callback # 0)
        => IF NoChunkRetained
           THEN last.called /\ last.after = last.before
           ELSE /\ ~last.called
                /\ HasLastChunk(last.after)
                /\ LastChunk(last.after).free_callback = last.callback

\* The same with the earlier buffers' callbacks all set: the case in which
\* the last chunk of an earlier buffer carries a callback already.
C13_HoldsWhenEarlierCallbacksSet ==
    (last.op = "attach_free_callback" /\ last.callback # 0
     /\ HasLastChunk(last.before)
     /\ LastChunk(last.before).data # <<last.buffer>>
     /\ LastChunk(last.before).free_callback # 0)
        => last.called /\ last.after = last.before

(***************************************************************************)
(* Properties of the VP8 parser                                            *)
(***************************************************************************)
\* A buffer that holds a VP8 frame as RFC 6386 9.1 lays it out: the three
\* bytes of the frame tag, and for a key frame the start code and the sizes.
Vp8WellFormed(buffer) ==
    /\ Len(buffer) >= 3
    /\ (buffer[1] % 2 = 0) =>
           /\ Len(buffer) >= 10
           /\ <<buffer[4], buffer[5], buffer[6]>> = <<157, 1, 42>>

\* The last call of process_buffer was given a well-formed frame.
Vp8FrameGiven ==
    last.op = "vp8_process_buffer" /\ Vp8WellFormed(last.buffer)

\* The pack that the last call of process_buffer appended.
Vp8NewPack == last.after.m_packs[Len(last.after.m_packs)]

Vp8HasSequenceHeader ==
    Vp8NewPack.m_chunks[1].description = "IVF sequence header"

\* The number of sequence header chunks in the pack that the last call appended.
Vp8SequenceHeaders ==
    Cardinality({ i \in DOMAIN Vp8NewPack.m_chunks :
                    Vp8NewPack.m_chunks[i].description = "IVF sequence header" })

\* The width and height that the frame tag of a key frame carries.
Vp8SizeOf(buffer) ==
    <<(buffer[7] + 256 * buffer[8]) % 16384, (buffer[9] + 256 * buffer[10]) % 16384>>

\* C15: the pack of a key frame starts with one sequence header chunk exactly
\* when the key frame's width or height differs from those of the key frame
\* accepted before it, the first key frame counting as a change; the pack of
\* an inter frame has none.
C15_SequenceHeaderOnGeometryChange ==
    Vp8FrameGiven =>
        IF last.buffer[1] % 2 = 0
           /\ last.previous_keyframe # Vp8SizeOf(last.buffer)
        THEN Vp8HasSequenceHeader /\ Vp8SequenceHeaders = 1
        ELSE Vp8SequenceHeaders = 0

\* A key frame of 640x480 came after one of 320x240 and got a sequence
\* header; a key frame of the size of the one before it got none.
C15_Witness ==
    /\ Vp8FrameGiven
    /\ last.buffer[1] % 2 = 0
    /\ last.previous_keyframe = <<320, 240>>
    /\ Vp8SizeOf(last.buffer) = <<640, 480>>
    /\ Vp8HasSequenceHeader

C15_UnchangedSizeSeen ==
    /\ Vp8FrameGiven
    /\ last.buffer[1] % 2 = 0
    /\ last.previous_keyframe = <<320, 240>>
    /\ Vp8SizeOf(last.buffer) = <<320, 240>>
    /\ ~Vp8HasSequenceHeader

\* C16: the sequence header ahead of a key frame carries the key frame's
\* width in the two bytes at offset 12 and its height in the two at offset 14.
C16_SequenceHeaderCarriesSize ==
    (Vp8FrameGiven /\ last.buffer[1] % 2 = 0 /\ Vp8HasSequenceHeader) =>
        /\ LoadU16(Vp8NewPack.m_chunks[1].data, 12) = Vp8SizeOf(last.buffer)[1]
        /\ LoadU16(Vp8NewPack.m_chunks[1].data, 14) = Vp8SizeOf(last.buffer)[2]

\* C17: the pack of a VP8 frame can reopen decoding exactly when the frame is
\* a key frame (bit 0 of the first byte is 0), cannot be dropped, needs no
\* reordering and may use four reference frames.
C17_PackDirectives ==
    Vp8FrameGiven =>
        /\ Vp8NewPack.m_can_reopen_decoding <=> (last.buffer[1] % 2 = 0)
        /\ ~Vp8NewPack.m_can_be_dropped
        /\ ~Vp8NewPack.m_needs_reordering
        /\ Vp8NewPack.m_maximum_number_of_reference_frames = 4

\* Packs of both kinds were appended: a key frame's and an inter frame's.
C17_Witness ==
    /\ Vp8FrameGiven
    /\ Len(last.after.m_packs) = 2
    /\ last.after.m_packs[1].m_can_reopen_decoding
    /\ ~last.after.m_packs[2].m_can_reopen_decoding
    /\ last.after.m_packs[2].m_maximum_number_of_reference_frames = 4

\* C18: an inter frame that comes after a refused frame, with no key frame
\* accepted in between, gets no pack.
C18_NoInterFrameUntilKeyframe ==
    (Vp8FrameGiven /\ last.buffer[1] % 2 = 1 /\ last.awaited_keyframe)
        => last.after = last.before

(***************************************************************************)
(* Properties of the picture boundary rule                                 *)
(***************************************************************************)
\* The members that the rule compares as they are; the IDR flag is the NAL
\* type being that of an IDR slice.
ComparedFields ==
    {"frame_num", "pic_parameter_set_id", "field_pic_flag", "bottom_field_flag",
     "ref_nal_idc", "pic_order_cnt_lsb", "delta_pic_order_cnt_bottom",
     "delta_pic_order_cnt", "idr_pic_id", "redundant_pic_cnt"}

IdrFlag(h) == h.nal_unit_type = IDR_SLICE

C19_IdrPicIdAloneSeen ==
    /\ h264_last.op = "are_different_pictures"
    /\ h264_last.next = [h264_last.prev EXCEPT !.idr_pic_id = 1 - @]
    /\ h264_last.different

(***************************************************************************)
(* The bit reader stays inside its buffer                                  *)
(***************************************************************************)
BitstreamReads == {"read_un_bits", "read_uev_bits", "read_sev_bits"}

\* The bits a reader has not handed out yet: those of the bytes not loaded
\* and those waiting in m_bits.
BitsRemaining(this) == 8 * this.m_data_size + this.m_bits_available

\* The bit of the buffer that the next read starts at.
BitPosition(this) == 8 * Len(this.data) - BitsRemaining(this)

\* The bits of the Exp-Golomb code that starts at the reader's position:
\* the leading zero bits, the one bit and as many suffix bits; more than
\* remain where the data ends before the one bit.
UevBitsOf(this, leading_zero_bits) ==
    IF leading_zero_bits >= BitsRemaining(this) THEN BitsRemaining(this) + 1
    ELSE 2 * leading_zero_bits + 1

\* The bits the recorded call asked for.
BitsRequested(call) ==
    IF call.op = "read_un_bits" THEN call.n
    ELSE UevBitsOf(call.before,
                   LeadingZeroBits(call.before.data, BitPosition(call.before)))

\* C20: whatever the buffer and whatever reads came before, a fixed-width or
\* Exp-Golomb read fetches only bytes at offsets below the size of the
\* buffer, and it returns the error, with no value, exactly when fewer bits
\* remain than it was asked for.
C20_ReadsStayInsideBuffer ==
    h264_last.op \in BitstreamReads =>
        /\ \A offset \in h264_last.fetched :
               offset < Len(h264_last.before.data)
        /\ h264_last.error <=>
               BitsRemaining(h264_last.before) < BitsRequested(h264_last)
        /\ h264_last.error => h264_last.value = 0

\* A read of more bits than remain: it fetched the last byte of the buffer,
\* went no further and returned the error.
C20_Witness ==
    /\ h264_last.op = "read_un_bits"
    /\ h264_last.before.m_data_size > 0
    /\ BitsRemaining(h264_last.before) < h264_last.n
    /\ Len(h264_last.before.data) - 1 \in h264_last.fetched
    /\ h264_last.error

\* An Exp-Golomb code cut short by the end of the buffer.
C20_UevCutShortSeen ==
    /\ h264_last.op = "read_uev_bits"
    /\ h264_last.fetched # {}
    /\ h264_last.error

\* The values handed out are the bits of the buffer at the reader's
\* position, as the reader by position has them.
C20_ValuesAreBitsOfBuffer ==
    (h264_last.op = "read_un_bits" /\ ~h264_last.error) =>
        /\ h264_last.value = BitsValue(h264_last.before.data,
                                       BitPosition(h264_last.before),
                                       h264_last.n)
        /\ BitPosition(bitstream) = BitPosition(h264_last.before) + h264_last.n

C20_UevAgreesWithPositionReader ==
    h264_last.op = "read_uev_bits" =>
        /\ h264_last.error =
               read_uev_bits([m_data |-> h264_last.before.data,
                              pos |-> BitPosition(h264_last.before)]).error
        /\ h264_last.value =
               read_uev_bits([m_data |-> h264_last.before.data,
                              pos |-> BitPosition(h264_last.before)]).value

(***************************************************************************)
(* Exp-Golomb codes read back                                              *)
(***************************************************************************)
\* C21: the code of n, floor(log2(n + 1)) zero bits and then n + 1 in
\* binary, is read back by read_uev_bits as n without error, n being
\* 2^leadingZeroBits - 1 plus the digits after the one bit.
C21_UevReadsBackValue ==
    h264_last.op = "read_uev_bits" =>
        /\ ~h264_last.error
        /\ h264_last.value = h264_last.n
        /\ h264_last.leading_zero_bits = FloorLog2(h264_last.n + 1)
        /\ h264_last.value =
               (2 ^ h264_last.leading_zero_bits) - 1
               + ((h264_last.n + 1) % (2 ^ h264_last.leading_zero_bits))

\* The largest value, 2^20, read back from a code that starts inside a byte.
C21_Witness ==
    /\ h264_last.op = "read_uev_bits"
    /\ h264_last.n = 2 ^ 20
    /\ h264_last.lead = 5
    /\ h264_last.value = 2 ^ 20
    /\ h264_last.leading_zero_bits = 20

\* ceil(k / 2)
HalfRoundedUp(k) == (k + 1) \div 2

C22_EvenCodeNegativeSeen ==
    /\ h264_last.op = "read_sev_bits"
    /\ h264_last.n = 2
    /\ h264_last.value = 0 - 1

(***************************************************************************)
(* The dimensions that a sequence parameter set gives                      *)
(***************************************************************************)
SpsGiven == h264_last.op = "at_h264_get_sps_info"

\* The crop offsets in effect: those of the fields with frame_cropping_flag,
\* 0 without it.
SpsCrop(f, side) == IF f.frame_cropping_flag = 1 THEN f[side] ELSE 0

\* The luma rows that one unit of a vertical crop offset stands for.
SpsVerticalCropUnit(f) == IF f.frame_mbs_only_flag = 1 THEN 2 ELSE 4

\* C23: the padded width is (pic_width_in_mbs_minus1 + 1) * 16, the padded
\* height (pic_height_in_map_units_minus1 + 1) * 16 * (2 -
\* frame_mbs_only_flag); the crop offsets are the crop fields times 2
\* horizontally and times 2 (frames) or 4 (fields) vertically; the true size
\* is the padded size less the crops of both sides. So 119/67 in frames
\* without cropping is 1920x1088 padded and true, and crops of 2 left and
\* right make the true width the padded width less 8.
C23_DimensionsFromFields ==
    SpsGiven =>
        /\ h264_last.sps_info.ok
        /\ h264_last.sps_info.padded_frame_width =
               (h264_last.fields.pic_width_in_mbs_minus1 + 1) * 16
        /\ h264_last.sps_info.padded_frame_height =
               (h264_last.fields.pic_height_in_map_units_minus1 + 1) * 16
                   * (2 - h264_last.fields.frame_mbs_only_flag)
        /\ h264_last.sps_info.true_crop_offset_left =
               2 * SpsCrop(h264_last.fields, "frame_crop_left_offset")
        /\ h264_last.sps_info.true_crop_offset_top =
               SpsVerticalCropUnit(h264_last.fields)
                   * SpsCrop(h264_last.fields, "frame_crop_top_offset")
        /\ h264_last.sps_info.true_frame_width =
               h264_last.sps_info.padded_frame_width
                   - 2 * SpsCrop(h264_last.fields, "frame_crop_left_offset")
                   - 2 * SpsCrop(h264_last.fields, "frame_crop_right_offset")
        /\ h264_last.sps_info.true_frame_height =
               h264_last.sps_info.padded_frame_height
                   - SpsVerticalCropUnit(h264_last.fields)
                         * SpsCrop(h264_last.fields, "frame_crop_top_offset")
                   - SpsVerticalCropUnit(h264_last.fields)
                         * SpsCrop(h264_last.fields, "frame_crop_bottom_offset")
        /\ h264_last.fields = SpsFullHd =>
               /\ h264_last.sps_info.padded_frame_width = 1920
               /\ h264_last.sps_info.padded_frame_height = 1088
               /\ h264_last.sps_info.true_frame_width = 1920
               /\ h264_last.sps_info.true_frame_height = 1088
        /\ ( /\ h264_last.fields.frame_cropping_flag = 1
             /\ h264_last.fields.frame_crop_left_offset = 2
             /\ h264_last.fields.frame_crop_right_offset = 2 ) =>
               h264_last.sps_info.true_frame_width =
                   h264_last.sps_info.padded_frame_width - 8

\* A stream of fields, 1920 wide, cropped by 2 left and right and by 3 at
\* the top: true width 1912, rows cropped at the top 12.
C23_Witness ==
    /\ SpsGiven
    /\ h264_last.fields.pic_width_in_mbs_minus1 = 119
    /\ h264_last.fields.frame_mbs_only_flag = 0
    /\ h264_last.fields.frame_cropping_flag = 1
    /\ h264_last.fields.frame_crop_left_offset = 2
    /\ h264_last.fields.frame_crop_right_offset = 2
    /\ h264_last.fields.frame_crop_top_offset = 3
    /\ h264_last.sps_info.true_frame_width = 1912
    /\ h264_last.sps_info.true_crop_offset_top = 12

C23_FullHdSeen ==
    /\ SpsGiven
    /\ h264_last.fields = SpsFullHd
    /\ h264_last.sps_info.true_frame_width = 1920
    /\ h264_last.sps_info.true_frame_height = 1088

\* C24: whatever sequence parameter set at_h264_get_sps_info accepts, the
\* true width and height it derives are not above the padded width and
\* height (the subtraction of the crops does not wrap below zero).
C24_TrueWithinPadded ==
    (SpsGiven /\ h264_last.sps_info.ok) =>
        /\ 0 <= h264_last.sps_info.true_frame_width
        /\ h264_last.sps_info.true_frame_width
               <= h264_last.sps_info.padded_frame_width
        /\ 0 <= h264_last.sps_info.true_frame_height
        /\ h264_last.sps_info.true_frame_height
               <= h264_last.sps_info.padded_frame_height
        /\ 0 <= h264_last.sps_info.true_crop_offset_left
        /\ 0 <= h264_last.sps_info.true_crop_offset_top

(***************************************************************************)
(* The slice type that the initial part of a slice header gives            *)
(***************************************************************************)
SliceHeaderGiven == h264_last.op = "at_h264_get_initial_slice_header_info"

\* C25: whatever slice_type the initial parse of a slice header reads and
\* accepts, the unwrapped slice type it stores is slice_type mod 5 and is
\* one of P, B, I, SP and SI.
C25_SliceTypeUnwrapped ==
    (SliceHeaderGiven /\ h264_last.slice_header_info.ok) =>
        /\ h264_last.slice_header_info.slice_type = h264_last.fields.slice_type
        /\ h264_last.slice_header_info.h264_slice_type =
               h264_last.fields.slice_type % 5
        /\ h264_last.slice_header_info.h264_slice_type
               \in {SliceP, SliceB, SliceI, SliceSP, SliceSI}

\* The same for the slice types of the standard's table, 0 to 9.
C25_HoldsForSliceTypesOfTable ==
    (SliceHeaderGiven /\ h264_last.slice_header_info.ok
         /\ h264_last.fields.slice_type <= 9) =>
        /\ h264_last.slice_header_info.h264_slice_type =
               h264_last.fields.slice_type % 5
        /\ h264_last.slice_header_info.h264_slice_type
               \in {SliceP, SliceB, SliceI, SliceSP, SliceSI}

\* A slice type of the second half of the table accepted and unwrapped.
C25_WrappedTypeSeen ==
    /\ SliceHeaderGiven
    /\ h264_last.slice_header_info.ok
    /\ h264_last.fields.slice_type = 7
    /\ h264_last.slice_header_info.h264_slice_type = SliceI

(***************************************************************************)
(* The search for start codes                                              *)
(***************************************************************************)
\* The offsets from ptr on at which 00 00 01 stands with a byte after it
\* inside the buffer.
StartCodesFrom(data, ptr) ==
    { p \in ptr .. Len(data) - 4 :
          data[p + 1] = 0 /\ data[p + 2] = 0 /\ data[p + 3] = 1 }

Lowest(offsets) == CHOOSE p \in offsets : \A q \in offsets : p <= q

\* C26: at_h264_next_start_code returns the lowest offset at or after ptr
\* where 00 00 01 stands with one more byte before the limit, and the null
\* pointer where there is none; it reports nothing that lies before ptr. In
\* 00 00 00 01 AA 00 00 01 BB the search from 0 returns 1 and the next start
\* code is at 5.
C26_LowestStartCodeFromPtr ==
    h264_last.op = "at_h264_next_start_code" =>
        /\ StartCodesFrom(h264_last.data, h264_last.ptr) = {} =>
               h264_last.found = -1
        /\ StartCodesFrom(h264_last.data, h264_last.ptr) # {} =>
               h264_last.found =
                   Lowest(StartCodesFrom(h264_last.data, h264_last.ptr))
        /\ h264_last.found # -1 => h264_last.found >= h264_last.ptr
        /\ (h264_last.data = StartCodeExample /\ h264_last.ptr = 0) =>
               h264_last.found = 1
        /\ (h264_last.data = StartCodeExample /\ h264_last.ptr \in 2 .. 5) =>
               h264_last.found = 5

\* The search of the two NALs from behind the first start code finds the
\* second.
C26_Witness ==
    /\ h264_last.op = "at_h264_next_start_code"
    /\ h264_last.data = StartCodeExample
    /\ h264_last.ptr = 5
    /\ h264_last.found = 5

\* A search that begins inside a start code does not report it.
C26_SearchFromInsideStartCodeSeen ==
    /\ h264_last.op = "at_h264_next_start_code"
    /\ h264_last.data = <<0, 0, 1, 170>>
    /\ h264_last.ptr = 1
    /\ h264_last.found = -1

\* The search by position, which the parser of buffers is built on, returns
\* what the search with the state returns.
C26_SearchByPositionAgrees ==
    h264_last.op = "at_h264_next_start_code" =>
        h264_last.found = at_h264_next_start_code(h264_last.data, h264_last.ptr)

(***************************************************************************)
(* The synchronized flag of the H.264 parser                               *)
(***************************************************************************)
\* The NALs whose handlers parse them and call go_out_of_sync on an error.
ParsedTypes ==
    { SEQUENCE_PARAMETER_SET, PICTURE_PARAMETER_SET, IDR_SLICE, NON_IDR_SLICE,
      PARTITION_A_SLICE }

\* The flag as each NAL of the call found it is the flag as the NAL before
\* it left it, from the parser before the call to the parser after it.
SynchronizedChained(call, after) ==
    /\ call.nals[1].synchronized = call.before.m_synchronized
    /\ \A i \in 2..Len(call.nals) :
           call.nals[i].synchronized = call.nals[i - 1].synchronized_after
    /\ after.m_synchronized = call.nals[Len(call.nals)].synchronized_after

\* One NAL: the flag rises only with an IDR slice whose header parsed and
\* which the decoder was fed and took; it falls only where the handler of a
\* parsed NAL returned through go_out_of_sync, with nothing fed.
SynchronizedByNal(nal) ==
    /\ (~nal.synchronized /\ nal.synchronized_after) =>
           /\ nal.type = IDR_SLICE
           /\ nal.header_ok
           /\ nal.feed_called
           /\ nal.consumed
    /\ (nal.synchronized /\ ~nal.synchronized_after) =>
           /\ nal.type \in ParsedTypes
           /\ ~nal.header_ok
           /\ ~nal.feed_called

\* A call that left the parser as after: reset and the buffer without a
\* start code (go_out_of_sync) can only clear the flag.
SynchronizedByCall(call, after) ==
    /\ call.op \in {"process_buffer", "reset"}
    /\ (call.op = "reset" \/ call.nals = <<>>) =>
           (after.m_synchronized => call.before.m_synchronized)
    /\ (call.op = "process_buffer" /\ call.nals # <<>>) =>
           /\ SynchronizedChained(call, after)
           /\ \A i \in 1..Len(call.nals) : SynchronizedByNal(call.nals[i])

\* C27: m_synchronized is false to begin with; it becomes true only with an
\* IDR slice that parsed and that the decoder accepted, and it becomes false
\* only through go_out_of_sync or reset.
C27_SynchronizedFlag ==
    /\ ~h264_parser.m_synchronized
    /\ [][ /\ h264_parser' # h264_parser => h264_last'.before = h264_parser
           /\ h264_parser'.m_synchronized # h264_parser.m_synchronized =>
                  SynchronizedByCall(h264_last', h264_parser') ]_vars

\* An IDR slice that the decoder took brought the parser into sync.
C27_Witness ==
    /\ h264_last.op = "process_buffer"
    /\ \E i \in 1..Len(h264_last.nals) :
           /\ h264_last.nals[i].type = IDR_SLICE
           /\ ~h264_last.nals[i].synchronized
           /\ h264_last.nals[i].synchronized_after
           /\ h264_last.nals[i].consumed

C27_OutOfSyncSeen ==
    /\ h264_last.op = "process_buffer"
    /\ \E i \in 1..Len(h264_last.nals) :
           /\ h264_last.nals[i].synchronized
           /\ ~h264_last.nals[i].synchronized_after

C27_ResetOutOfSyncSeen ==
    /\ h264_last.op = "reset"
    /\ h264_last.before.m_synchronized
    /\ ~h264_parser.m_synchronized

C27_NoStartCodeOutOfSyncSeen ==
    /\ h264_last.op = "process_buffer"
    /\ h264_last.nals = <<>>
    /\ h264_last.before.m_synchronized
    /\ ~h264_parser.m_synchronized

(***************************************************************************)
(* The activated sequence parameter set                                    *)
(***************************************************************************)
\* No parameter set NAL comes before NAL i in its buffer, so the tables that
\* NAL i is handled with are those of the parser before the call.
TablesAsBeforeCall(i) ==
    \A k \in 1..(i - 1) :
        h264_last.nals[k].type \notin {SEQUENCE_PARAMETER_SET, PICTURE_PARAMETER_SET}

\* The id of the SPS that the PPS named in the header of a slice refers to,
\* or -1 where the header names no stored PPS.
ReferredSpsOf(initial, this) ==
    IF ~initial.ok THEN -1
    ELSE IF this.m_picture_parameter_sets[initial.pic_parameter_set_id].m_size = 0
    THEN -1
    ELSE this.m_picture_parameter_sets[initial.pic_parameter_set_id].m_referred_index

\* The activated ids as each NAL of the call found them are those the NAL
\* before it left, from the parser before the call to the parser after it.
ActivatedChained(call, after) ==
    /\ call.nals[1].activated =
           <<call.before.m_activated_sps, call.before.m_activated_pps>>
    /\ \A i \in 2..Len(call.nals) :
           call.nals[i].activated = call.nals[i - 1].activated_after
    /\ <<after.m_activated_sps, after.m_activated_pps>> =
           call.nals[Len(call.nals)].activated_after

\* C28: a non-IDR or partition A slice whose PPS refers to another SPS than
\* the activated one is not fed to the decoder and leaves the parser out of
\* sync; the activated SPS id becomes an id (not -1) only with an IDR slice
\* that the decoder accepted.
C28_OnlyIdrActivatesSps ==
    /\ h264_last.op = "reset" =>
           h264_parser.m_activated_sps \in {-1, h264_last.before.m_activated_sps}
    /\ (h264_last.op = "process_buffer" /\ h264_last.nals = <<>>) =>
           h264_parser.m_activated_sps = h264_last.before.m_activated_sps
    /\ (h264_last.op = "process_buffer" /\ h264_last.nals # <<>>) =>
           /\ ActivatedChained(h264_last, h264_parser)
           /\ \A i \in 1..Len(h264_last.nals) :
                /\ ( /\ h264_last.nals[i].type \in {NON_IDR_SLICE, PARTITION_A_SLICE}
                     /\ TablesAsBeforeCall(i)
                     /\ ReferredSpsOf(at_h264_get_initial_slice_header_info(NalOf(i)),
                                      h264_last.before)
                            # h264_last.nals[i].activated[1] ) =>
                       /\ ~h264_last.nals[i].feed_called
                       /\ ~h264_last.nals[i].synchronized_after
                       /\ h264_last.nals[i].activated_after =
                              h264_last.nals[i].activated
                /\ ( /\ h264_last.nals[i].activated_after[1]
                            # h264_last.nals[i].activated[1]
                     /\ h264_last.nals[i].activated_after[1] # -1 ) =>
                       /\ h264_last.nals[i].type = IDR_SLICE
                       /\ h264_last.nals[i].feed_called
                       /\ h264_last.nals[i].consumed

\* A slice of a P picture found the parser in sync with no SPS activated,
\* its PPS referring to SPS 0: it was not fed and the parser went out of
\* sync.
C28_Witness ==
    /\ h264_last.op = "process_buffer"
    /\ \E i \in 1..Len(h264_last.nals) :
           /\ h264_last.nals[i].type = NON_IDR_SLICE
           /\ TablesAsBeforeCall(i)
           /\ h264_last.nals[i].synchronized
           /\ ReferredSpsOf(at_h264_get_initial_slice_header_info(NalOf(i)),
                            h264_last.before) = 0
           /\ h264_last.nals[i].activated[1] = -1
           /\ ~h264_last.nals[i].feed_called
           /\ ~h264_last.nals[i].synchronized_after

\* An IDR slice that the decoder accepted activated an SPS.
C28_IdrActivatesSeen ==
    /\ h264_last.op = "process_buffer"
    /\ \E i \in 1..Len(h264_last.nals) :
           /\ h264_last.nals[i].type = IDR_SLICE
           /\ h264_last.nals[i].activated[1] = -1
           /\ h264_last.nals[i].activated_after[1] = 0

(***************************************************************************)
(* Parameter sets replaced while activated                                 *)
(***************************************************************************)
\* seq_parameter_set_id as handle_sps_nal reads it, behind the seven bytes
\* of start code, header, profile, flags and level.
SpsIdOfNal(nal) == read_uev_bits(H264Bitstream(SubSeq(nal, 8, Len(nal)))).value

SliceTypes == {IDR_SLICE, NON_IDR_SLICE, PARTITION_A_SLICE}

\* The stored PPS that the header of slice NAL i names and the stored SPS
\* that this PPS refers to, in the tables of the parser before the call.
PpsOfSlice(i) ==
    h264_last.before.m_picture_parameter_sets[
        at_h264_get_initial_slice_header_info(NalOf(i)).pic_parameter_set_id]

SpsOfSlice(i) ==
    h264_last.before.m_sequence_parameter_sets[PpsOfSlice(i).m_referred_index]

\* C29: an SPS NAL that changes the bytes stored under the activated SPS id
\* clears the activation (of the SPS and of the PPS), a PPS NAL that changes
\* the bytes stored under the activated PPS id clears the activation of the
\* PPS; and a slice handed to the decoder while an activation is cleared has
\* the stored parameter set ahead of it.
C29_ChangedSetsReactivated ==
    h264_last.op = "process_buffer" =>
        \A i \in 1..Len(h264_last.nals) :
            /\ ( /\ h264_last.nals[i].type = SEQUENCE_PARAMETER_SET
                 /\ h264_last.nals[i].changed = "changed"
                 /\ h264_last.nals[i].activated[1] = SpsIdOfNal(NalOf(i)) ) =>
                   h264_last.nals[i].activated_after = <<-1, -1>>
            /\ ( /\ h264_last.nals[i].type = PICTURE_PARAMETER_SET
                 /\ h264_last.nals[i].changed = "changed"
                 /\ h264_last.nals[i].activated[2] = PpsIdRead(NalOf(i)).value ) =>
                   h264_last.nals[i].activated_after[2] = -1
            /\ ( /\ h264_last.nals[i].type \in SliceTypes
                 /\ h264_last.nals[i].feed_called
                 /\ h264_last.nals[i].activated[1] = -1 ) =>
                   /\ h264_last.nals[i].parts[1] # <<>>
                   /\ TablesAsBeforeCall(i) =>
                          h264_last.nals[i].parts[1] = SpsOfSlice(i).m_data
            /\ ( /\ h264_last.nals[i].type \in SliceTypes
                 /\ h264_last.nals[i].feed_called
                 /\ h264_last.nals[i].activated[2] = -1 ) =>
                   /\ h264_last.nals[i].parts[2] # <<>>
                   /\ TablesAsBeforeCall(i) =>
                          h264_last.nals[i].parts[2] = PpsOfSlice(i).m_data

\* An SPS NAL replaced the bytes of the activated SPS 0 and cleared both
\* activations.
C29_Witness ==
    /\ h264_last.op = "process_buffer"
    /\ \E i \in 1..Len(h264_last.nals) :
           /\ h264_last.nals[i].type = SEQUENCE_PARAMETER_SET
           /\ h264_last.nals[i].changed = "changed"
           /\ h264_last.nals[i].slot_before.m_size > 0
           /\ h264_last.nals[i].activated = <<0, 0>>
           /\ h264_last.nals[i].activated_after = <<-1, -1>>

C29_PpsReplacedSeen ==
    /\ h264_last.op = "process_buffer"
    /\ \E i \in 1..Len(h264_last.nals) :
           /\ h264_last.nals[i].type = PICTURE_PARAMETER_SET
           /\ h264_last.nals[i].changed = "changed"
           /\ h264_last.nals[i].slot_before.m_size > 0
           /\ h264_last.nals[i].activated = <<0, 0>>
           /\ h264_last.nals[i].activated_after = <<0, -1>>

\* A slice of a P picture fed with the replaced PPS ahead of it.
C29_SliceWithReplacedPpsSeen ==
    /\ h264_last.op = "process_buffer"
    /\ \E i \in 1..Len(h264_last.nals) :
           /\ h264_last.nals[i].type = NON_IDR_SLICE
           /\ h264_last.nals[i].feed_called
           /\ h264_last.nals[i].activated = <<0, -1>>
           /\ h264_last.nals[i].parts[2] = PpsB

\* An IDR slice fed with the replaced SPS ahead of it while the session was
\* open already.
C29_IdrWithReplacedSpsSeen ==
    /\ h264_last.op = "process_buffer"
    /\ \E i \in 1..Len(h264_last.nals) :
           /\ h264_last.nals[i].type = IDR_SLICE
           /\ h264_last.nals[i].feed_called
           /\ h264_last.nals[i].synchronized
           /\ h264_last.nals[i].activated = <<-1, -1>>
           /\ h264_last.nals[i].parts[1] = SpsB

(***************************************************************************)
(* NALs that the decoder refuses                                           *)
(***************************************************************************)
\* The tables with what parameter set NAL i stored in them.
TablesWithNal(tables, i) ==
    IF h264_last.nals[i].changed = "none" THEN tables
    ELSE IF h264_last.nals[i].type = SEQUENCE_PARAMETER_SET
    THEN [tables EXCEPT !.m_sequence_parameter_sets[SpsIdOfNal(NalOf(i))] =
                            h264_last.nals[i].slot_after]
    ELSE [tables EXCEPT !.m_picture_parameter_sets[PpsIdRead(NalOf(i)).value] =
                            h264_last.nals[i].slot_after]

\* The tables of the parser as NAL i of the call found them: those of the
\* parser before the call with what the NALs before i stored.
RECURSIVE TablesBeforeNal(_)
TablesBeforeNal(i) ==
    IF i = 1
    THEN [m_sequence_parameter_sets |-> h264_last.before.m_sequence_parameter_sets,
          m_picture_parameter_sets |-> h264_last.before.m_picture_parameter_sets]
    ELSE TablesWithNal(TablesBeforeNal(i - 1), i - 1)

\* The call ended at a NAL that was not consumed.
LastNalRefused ==
    /\ h264_last.op = "process_buffer"
    /\ h264_last.nals # <<>>
    /\ ~h264_last.nals[Len(h264_last.nals)].consumed

\* C30: a NAL that is not consumed leaves m_synchronized, the activated ids
\* and the tables of parameter sets as it found them, so the parser that
\* sees the NAL again is the parser that saw it first.
C30_RefusedNalLeavesParser ==
    LastNalRefused =>
        /\ h264_last.nals[Len(h264_last.nals)].synchronized_after =
               h264_last.nals[Len(h264_last.nals)].synchronized
        /\ h264_last.nals[Len(h264_last.nals)].activated_after =
               h264_last.nals[Len(h264_last.nals)].activated
        /\ h264_parser.m_synchronized =
               h264_last.nals[Len(h264_last.nals)].synchronized
        /\ <<h264_parser.m_activated_sps, h264_parser.m_activated_pps>> =
               h264_last.nals[Len(h264_last.nals)].activated
        /\ h264_parser.m_sequence_parameter_sets =
               TablesBeforeNal(Len(h264_last.nals)).m_sequence_parameter_sets
        /\ h264_parser.m_picture_parameter_sets =
               TablesBeforeNal(Len(h264_last.nals)).m_picture_parameter_sets
        /\ Len(h264_last.nals) = 1 => h264_parser = h264_last.before

\* An IDR slice with nothing activated yet was handed to the decoder and
\* refused.
C30_Witness ==
    /\ LastNalRefused
    /\ h264_last.nals[Len(h264_last.nals)].type = IDR_SLICE
    /\ h264_last.nals[Len(h264_last.nals)].activated[1] = -1
    /\ h264_parser.m_activated_sps = -1

\* A refused IDR slice that came after parameter sets in its buffer.
C30_RefusedAfterParameterSetsSeen ==
    /\ LastNalRefused
    /\ Len(h264_last.nals) = 3
    /\ h264_last.nals[1].changed = "changed"
    /\ h264_last.nals[3].type = IDR_SLICE

\* The tables of the parser after any call are those before it with what
\* the consumed NALs stored.
C30_TablesFollowNals ==
    (h264_last.op = "process_buffer" /\ h264_last.nals # <<>>) =>
        /\ h264_parser.m_sequence_parameter_sets =
               TablesWithNal(TablesBeforeNal(Len(h264_last.nals)),
                             Len(h264_last.nals)).m_sequence_parameter_sets
        /\ h264_parser.m_picture_parameter_sets =
               TablesWithNal(TablesBeforeNal(Len(h264_last.nals)),
                             Len(h264_last.nals)).m_picture_parameter_sets

(***************************************************************************)
(* Getting into sync                                                       *)
(***************************************************************************)
\* NAL k of the call is an IDR slice that the decoder was fed and took.
IdrAccepted(k) ==
    /\ h264_last.nals[k].type = IDR_SLICE
    /\ h264_last.nals[k].feed_called
    /\ h264_last.nals[k].consumed

\* NALs i < j < k of the call are an SPS that was stored, a PPS that was
\* stored and refers to that SPS, and an IDR slice that names that PPS.
SpsPpsIdr(i, j, k) ==
    /\ i < j /\ j < k
    /\ h264_last.nals[i].type = SEQUENCE_PARAMETER_SET
    /\ h264_last.nals[i].changed # "none"
    /\ h264_last.nals[j].type = PICTURE_PARAMETER_SET
    /\ h264_last.nals[j].changed # "none"
    /\ h264_last.nals[j].slot_after.m_referred_index = SpsIdOfNal(NalOf(i))
    /\ h264_last.nals[k].type = IDR_SLICE
    /\ at_h264_get_initial_slice_header_info(NalOf(k)).ok
    /\ at_h264_get_initial_slice_header_info(NalOf(k)).pic_parameter_set_id
           = PpsIdRead(NalOf(j)).value

\* C31: whatever state the parser is in, once an IDR slice that follows an
\* SPS and a PPS it refers to has been accepted by the decoder the parser is
\* synchronized: it is so behind every accepted IDR slice, and it is so
\* after the call unless a later NAL of the buffer took it out of sync.
C31_AcceptedIdrSynchronizes ==
    h264_last.op = "process_buffer" =>
        \A k \in 1..Len(h264_last.nals) :
            IdrAccepted(k) =>
                /\ h264_last.nals[k].synchronized_after
                /\ h264_last.nals[k].header_ok
                /\ h264_last.nals[k].activated_after[1] # -1
                /\ h264_last.nals[k].activated_after[2] # -1
                /\ k = Len(h264_last.nals) => h264_parser.m_synchronized

\* A buffer with SPS, PPS and IDR slice found the parser out of sync, the
\* decoder accepted the slice and the parser is synchronized.
C31_Witness ==
    /\ h264_last.op = "process_buffer"
    /\ Len(h264_last.nals) = 3
    /\ SpsPpsIdr(1, 2, 3)
    /\ ~h264_last.before.m_synchronized
    /\ IdrAccepted(3)
    /\ h264_parser.m_synchronized

\* The same where the parser had been in sync and had lost it.
C31_ResynchronizedSeen ==
    /\ h264_last.op = "process_buffer"
    /\ Len(h264_last.nals) = 3
    /\ SpsPpsIdr(1, 2, 3)
    /\ ~h264_last.before.m_synchronized
    /\ h264_last.before.m_sequence_parameter_sets[0].m_size > 0
    /\ IdrAccepted(3)
    /\ h264_parser.m_synchronized

(***************************************************************************)
(* The activated pair and the tables of parameter sets                     *)
(***************************************************************************)
\* The parser's tables hold a PPS with this id.
PpsStoredAt(this, pps_id) ==
    /\ pps_id \in 0..(H264_NUMBER_OF_PPS_ALLOWED - 1)
    /\ this.m_picture_parameter_sets[pps_id].m_size > 0

\* C32: where the activated PPS id is set, the PPS slot with that id is not
\* empty, the activated SPS id is set too, and the SPS that PPS refers to is
\* the activated SPS.
C32_ActivatedPairConsistent ==
    h264_parser.m_activated_pps # -1 =>
        /\ PpsStoredAt(h264_parser, h264_parser.m_activated_pps)
        /\ h264_parser.m_activated_sps # -1
        /\ h264_parser.m_picture_parameter_sets[h264_parser.m_activated_pps].m_referred_index
               = h264_parser.m_activated_sps

\* PPS 1 referring to SPS 1 is activated while PPS 0 refers to SPS 0.
C32_Witness ==
    /\ h264_parser.m_activated_pps = 1
    /\ h264_parser.m_activated_sps = 1
    /\ h264_parser.m_picture_parameter_sets[0].m_referred_index = 0
    /\ h264_parser.m_picture_parameter_sets[1].m_referred_index = 1

\* A PPS that is not the activated one was replaced by one that refers to
\* another SPS than the activated one, and the pair stayed activated.
C32_OtherPpsReplacedSeen ==
    /\ h264_last.op = "process_buffer"
    /\ Len(h264_last.nals) = 1
    /\ h264_last.nals[1].type = PICTURE_PARAMETER_SET
    /\ h264_last.nals[1].changed = "changed"
    /\ h264_last.nals[1].slot_before.m_size > 0
    /\ h264_last.nals[1].slot_after.m_referred_index # h264_parser.m_activated_sps
    /\ h264_last.before.m_activated_pps # -1
    /\ h264_parser.m_activated_pps = h264_last.before.m_activated_pps

\* The activated PPS was replaced by one that refers to another SPS.
C32_ActivePpsReplacedSeen ==
    /\ h264_last.op = "process_buffer"
    /\ Len(h264_last.nals) = 1
    /\ h264_last.nals[1].type = PICTURE_PARAMETER_SET
    /\ h264_last.nals[1].changed = "changed"
    /\ h264_last.before.m_activated_pps # -1
    /\ h264_last.nals[1].slot_before
         = h264_last.before.m_picture_parameter_sets[h264_last.before.m_activated_pps]
    /\ h264_last.nals[1].slot_after.m_referred_index # h264_last.before.m_activated_sps
    /\ h264_parser.m_activated_pps = -1
    /\ h264_parser.m_activated_sps = -1

\* C33: every PPS slot that is not empty refers to an SPS index in 0..31
\* whose SPS slot is not empty, so the chain from a slice's PPS to its SPS
\* stays inside both tables and ends at a stored SPS.
C33_StoredPpsRefersToStoredSps ==
    /\ DOMAIN h264_parser.m_picture_parameter_sets = 0..(H264_NUMBER_OF_PPS_ALLOWED - 1)
    /\ DOMAIN h264_parser.m_sequence_parameter_sets = 0..(H264_NUMBER_OF_SPS_ALLOWED - 1)
    /\ \A pps_id \in 0..(H264_NUMBER_OF_PPS_ALLOWED - 1) :
          h264_parser.m_picture_parameter_sets[pps_id].m_size > 0 =>
              /\ h264_parser.m_picture_parameter_sets[pps_id].m_referred_index
                     \in 0..(H264_NUMBER_OF_SPS_ALLOWED - 1)
              /\ h264_parser.m_sequence_parameter_sets[
                     h264_parser.m_picture_parameter_sets[pps_id].m_referred_index].m_size > 0

\* Two PPSs are stored that refer to different SPSs, and the call before
\* was given a PPS whose SPS is out of range or not stored and refused it.
C33_Witness ==
    /\ h264_parser.m_picture_parameter_sets[0].m_referred_index = 1
    /\ h264_parser.m_picture_parameter_sets[1].m_referred_index = 0
    /\ h264_last.op = "process_buffer"
    /\ Len(h264_last.nals) = 1
    /\ h264_last.nals[1].type = PICTURE_PARAMETER_SET
    /\ h264_last.nals[1].changed = "none"

\* A PPS that refers to an SPS that is not stored was given and not stored.
C33_PpsOfUnknownSpsRefusedSeen ==
    /\ h264_last.op = "process_buffer"
    /\ h264_last.data = Pps1Sps1
    /\ h264_last.before.m_sequence_parameter_sets[1].m_size = 0
    /\ h264_last.before.m_sequence_parameter_sets[0].m_size > 0
    /\ h264_parser.m_picture_parameter_sets[1].m_size = 0

(***************************************************************************)
(* Packs that need flushing, and the frames given for display              *)
(***************************************************************************)
\* The call before was a driver call on a queue that was not empty.
PackFound == last.op \in {"step", "try_to_step"} /\ last.before # <<>>

\* The call before fed and decoded for the pack it found at the front.
PackHandled == PackFound /\ last.handled

\* The call before found at the front a decoded pack that needs flushing.
FlushingPackFound ==
    /\ PackFound
    /\ last.before[1].m_needs_flushing
    /\ last.before[1].m_decoded

\* The call before marked the pack at the front, which needs flushing, as
\* decoded and left it in the queue.
FlushingPackDecoded ==
    /\ PackFound
    /\ last.before[1].m_needs_flushing
    /\ ~last.before[1].m_decoded
    /\ last.after # <<>>
    /\ last.after[1].m_decoded

\* Such a pack stays at the front, marked decoded, as long as flush steps
\* return frames or cannot be made, and is not decoded again.
FlushingPackKept ==
    /\ FlushingPackDecoded
           => /\ last.handled /\ last.decoded /\ last.at_front
              /\ last.flush \in {"skipped", "frame"}
    /\ (FlushingPackFound /\ last.handled)
           => /\ ~last.decoded
              /\ last.flush = "frame" => last.frame
              /\ last.flush \in {"skipped", "frame"}
                     => last.at_front /\ last.after # <<>> /\ last.after[1].m_decoded
    /\ (PackHandled /\ last.before[1].m_needs_flushing /\ last.flush = "empty")
           => last.after = <<>>

C34_RemovedByEmptyFlushSeen ==
    /\ FlushingPackFound
    /\ last.flush = "empty"
    /\ last.after = <<>>

\* A call found the decoded pack at the front and no session, and dropped
\* the pack without a flush step.
C34_RemovedWithoutSessionSeen ==
    /\ FlushingPackFound
    /\ ~last.session
    /\ last.flush = "none"
    /\ last.after = <<>>

\* A call failed to feed a chunk appended to the decoded pack and dropped it.
C34_RemovedByFeedingSeen ==
    /\ FlushingPackFound
    /\ last.session
    /\ last.before[1].m_chunks # <<>>
    /\ ~last.ok
    /\ last.after = <<>>

\* C35: every frame that the session marks as given for display during a
\* step() or try_to_step() call is the frame the call returns: the call
\* returns a frame where one was given, and no more than one is given.
C35_GivenFrameIsReturned ==
    last.op \in {"step", "try_to_step"} => last.given = FramesIn(last.frame)

\* That holds of the calls that make no flush step.
C35_HoldsWithoutFlushStep ==
    (last.op \in {"step", "try_to_step"} /\ last.flush \in {"none", "skipped"})
        => last.given = FramesIn(last.frame)

\* It holds as well of the calls that make a flush step for a pack decoded
\* by an earlier call.
C35_HoldsOfFlushStepAlone ==
    (last.op \in {"step", "try_to_step"} /\ ~last.decoded)
        => last.given = FramesIn(last.frame)

\* The decode gave a frame for display and the flush step of the same call
\* gave another: two frames are marked as given and one is returned.
C35_FrameOverwrittenSeen ==
    /\ last.op = "step"
    /\ last.decoded
    /\ last.flush = "frame"
    /\ last.given = 2
    /\ last.frame

\* The decode gave a frame for display and the flush step of the same call
\* gave none: a frame is marked as given and none is returned.
C35_FrameDroppedSeen ==
    /\ last.op = "step"
    /\ last.decoded
    /\ last.flush = "empty"
    /\ last.given = 1
    /\ ~last.frame

(***************************************************************************)
(* The free callback of the buffers given to the VP8 parser                *)
(***************************************************************************)
\* The chunks of a pack that carry the callback of the buffer.
ChunksOfBuffer(pack) ==
    { i \in 1..Len(pack.m_chunks) : pack.m_chunks[i].free_callback = 3 }

\* The frame was accepted: its data is the last chunk of the pack pushed,
\* that chunk alone carries the callback of the buffer, and the callback has
\* not been run, so that it runs once, when the chunk is removed.
Vp8CallbackWithFrameChunk ==
    /\ ~empty(last.after)
    /\ ~last.freed
    /\ ChunksOfBuffer(back(last.after)) = {Len(back(last.after).m_chunks)}
    /\ back(last.after).m_chunks[Len(back(last.after).m_chunks)].data = last.buffer

\* C36: the free callback of every buffer given to process_buffer is run
\* once: when the chunk with the frame data is removed from the queue if the
\* frame was accepted, before process_buffer returns if it was refused.
C36_CallbackRunOnce ==
    last.op = "vp8_process_buffer" =>
        IF last.pushed THEN Vp8CallbackWithFrameChunk ELSE last.freed

\* Of the accepted frames that holds.
C36_HoldsOfAcceptedFrames ==
    (last.op = "vp8_process_buffer" /\ last.pushed) => Vp8CallbackWithFrameChunk

\* A truncated frame was refused: the queue is as before, no chunk carries
\* the callback of the buffer and the callback was not run.
C36_RefusedBufferNotFreedSeen ==
    /\ last.op = "vp8_process_buffer"
    /\ Len(last.buffer) < 3
    /\ ~last.pushed
    /\ ~last.freed
    /\ last.after = last.before

(***************************************************************************)
(* Reads inside the NAL                                                    *)
(***************************************************************************)
\* The reader is given bytes of the NAL and no others.
WindowInside(w, nal) ==
    /\ w.size >= 0
    /\ w.first + w.size <= Len(nal)

\* C37: while a NAL of at least four bytes is handled, every byte that a
\* parsing routine reads lies inside the NAL: the search for the end of the
\* start code stops inside it, the byte with the type is inside it, and the
\* readers set up on it, the one for sps_id at offset 7 among them, are given
\* bytes of the NAL only.
C37_ReadsInsideNal ==
    h264_last.op = "handle_nal" =>
        /\ Len(h264_last.data) >= 4
        /\ ZeroBytesAhead(h264_last.data) < Len(h264_last.data)
        /\ \A w \in h264_last.windows : WindowInside(w, h264_last.data)

\* That holds of every NAL of seven bytes or more and of every NAL that is
\* not a sequence parameter set.
C37_HoldsFromSevenBytes ==
    (/\ h264_last.op = "handle_nal"
     /\ \/ Len(h264_last.data) >= 7
        \/ NalTypeOf(h264_last.data) # SEQUENCE_PARAMETER_SET)
        => /\ ZeroBytesAhead(h264_last.data) < Len(h264_last.data)
           /\ \A w \in h264_last.windows : WindowInside(w, h264_last.data)

\* A sequence parameter set of five bytes: the reader for sps_id starts two
\* bytes behind the NAL, and the call can come to store the NAL or not.
C37_ShortSpsSeen ==
    /\ h264_last.op = "handle_nal"
    /\ h264_last.data = <<0, 0, 1, 103, 66>>
    /\ h264_last.windows = { ReaderWindow(7, -2) }
    /\ h264_last.changed = {"none", "changed"}

(***************************************************************************)
(* Scaling lists skipped                                                   *)
(***************************************************************************)
\* The delta_scale values that the scaling_list syntax of the standard
\* (7.3.2.1.1.1) reads of the values given: it reads one for a coefficient
\* while nextScale is not 0, and lastScale follows the coefficients.
RECURSIVE ScalingListSyntaxReads(_, _, _, _)
ScalingListSyntaxReads(deltas, size, last_scale, next_scale) ==
    IF size = 0 THEN 0
    ELSE IF next_scale = 0
    THEN ScalingListSyntaxReads(deltas, size - 1, last_scale, next_scale)
    ELSE IF deltas = <<>> THEN 1
    ELSE LET next == (last_scale + deltas[1] + 256) % 256
         IN 1 + ScalingListSyntaxReads(Tail(deltas), size - 1,
                                       IF next = 0 THEN last_scale ELSE next, next)

\* The values given are a list of that syntax, no value short or left over.
ScalingListWellFormed(deltas, size) ==
    deltas # <<>> => ScalingListSyntaxReads(deltas, size, 8, 8) = Len(deltas)

ScalingListsGiven == h264_last.op = "scaling_lists"

\* The sequence parameter set was parsed and the fields behind the lists
\* were read as given.
ScalingSpsParsed ==
    /\ h264_last.sps_info.ok
    /\ h264_last.sps_info.padded_frame_width =
           (h264_last.fields.pic_width_in_mbs_minus1 + 1) * 16
    /\ h264_last.sps_info.padded_frame_height =
           (h264_last.fields.pic_height_in_map_units_minus1 + 1) * 16

\* C38: with seq_scaling_matrix_present_flag = 1 every scaling list that is
\* present is skipped, 16 coefficients for the lists below 6 and 64 from 6
\* on, by reading the bits of the scaling_list syntax and no others; the
\* fields behind the lists are then parsed and the parse succeeds.
C38_ScalingListsSkipped ==
    ScalingListsGiven =>
        /\ ScalingListWellFormed(h264_last.fields.list0, 16)
        /\ ScalingListWellFormed(h264_last.fields.list1, 16)
        /\ ScalingListWellFormed(h264_last.fields.list6, 64)
        /\ ScalingSpsParsed

\* The lists written are lists of the syntax.
C38_ListsWellFormed ==
    /\ \A l \in ScalingLists16 : ScalingListWellFormed(l, 16)
    /\ \A l \in ScalingLists64 : ScalingListWellFormed(l, 64)

\* Lists of 16 whose coefficients stay at 8 until the list ends, or that
\* end with the first delta_scale, are skipped as stated when no list of 64
\* is present.
C38_HoldsOfFlatListsOf16 ==
    (/\ ScalingListsGiven
     /\ h264_last.fields.list6 = <<>>
     /\ h264_last.fields.list0 # <<2, -10>>
     /\ h264_last.fields.list1 # <<2, -10>>) => ScalingSpsParsed

\* Every list of 64 that is present fails the parse.
C38_ListOf64Refused ==
    (ScalingListsGiven /\ h264_last.fields.list6 # <<>>) => ~h264_last.sps_info.ok

\* A list of 16 that rises to 10 and ends there is not skipped as the syntax
\* has it: the parse fails or reads other fields than were given.
C38_RisingListMisread ==
    (/\ ScalingListsGiven
     /\ h264_last.fields.list6 = <<>>
     /\ h264_last.fields.list0 = <<2, -10>>) => ~ScalingSpsParsed

C38_FlatListsSeen ==
    /\ ScalingListsGiven
    /\ h264_last.fields.list0 = <<0, 0, -8>>
    /\ h264_last.fields.list1 = <<-8>>
    /\ h264_last.fields.list6 = <<>>
    /\ h264_last.sps_info.ok
    /\ h264_last.sps_info.padded_frame_width = 1920

C38_ListOf64Seen ==
    /\ ScalingListsGiven
    /\ h264_last.fields.list0 = <<>>
    /\ h264_last.fields.list1 = <<>>
    /\ h264_last.fields.list6 = <<-8>>
    /\ ~h264_last.sps_info.ok

(***************************************************************************)
(* C39: fields of the slice header that the slice does not carry           *)
(***************************************************************************)
\* The full parse of the slice parsed last, had field_pic_flag held
\* on_entry when the parse began.
FullSliceHeaderInfoFrom(on_entry) ==
    at_h264_get_full_slice_header_info(
        FullSliceNalOf(h264_last.fields), FullSliceSps(h264_last.fields),
        FullSlicePps(h264_last.fields), on_entry)

\* C39: a field of SliceHeaderInfo whose syntax element the slice header does
\* not carry is zero or false in the result of the full parse, and the
\* result and the path of the parse depend on the bytes of the slice and on
\* the parameter sets only, not on what the structure held before. Of the
\* fields named, the parse reads field_pic_flag back: in a stream of frames
\* (frame_mbs_only_flag set) the result has it false, and the result is the
\* one the parse gives whatever the flag held on entry.
C39_AbsentFieldsZero ==
    h264_last.op = "at_h264_get_full_slice_header_info" =>
        /\ h264_last.slice_header_info.ok
           /\ h264_last.fields.frame_mbs_only_flag
             => ~h264_last.slice_header_info.field_pic_flag
        /\ \A on_entry \in BOOLEAN :
             FullSliceHeaderInfoFrom(on_entry) = h264_last.slice_header_info

\* What does hold: a structure whose field_pic_flag is false on entry gives
\* the result of the claim, and so does every stream with fields, where the
\* flag is read from the slice.
C39_HoldsOfClearedStructure ==
    h264_last.op = "at_h264_get_full_slice_header_info"
    /\ h264_last.slice_header_info.ok
    /\ h264_last.fields.frame_mbs_only_flag
    /\ ~h264_last.on_entry
        => ~h264_last.slice_header_info.field_pic_flag

C39_HoldsOfStreamsWithFields ==
    h264_last.op = "at_h264_get_full_slice_header_info"
    /\ ~h264_last.fields.frame_mbs_only_flag
        => /\ FullSliceHeaderInfoFrom(TRUE) = FullSliceHeaderInfoFrom(FALSE)
           /\ h264_last.slice_header_info.ok
           /\ h264_last.slice_header_info.field_pic_flag
                  = (h264_last.fields.field_pic_flag = 1)

\* The written header is the one read where the flag is false on entry.
C39_ClearedStructureParses ==
    h264_last.op = "at_h264_get_full_slice_header_info" /\ ~h264_last.on_entry
        => /\ h264_last.slice_header_info.ok
           /\ h264_last.slice_header_info.nal_unit_type
                  = h264_last.fields.nal_unit_type
           /\ h264_last.slice_header_info.slice_type
                  = h264_last.fields.slice_type

\* The flag comes out set for a stream of frames.
C39_FlagLeftSetSeen ==
    /\ h264_last.op = "at_h264_get_full_slice_header_info"
    /\ h264_last.fields.frame_mbs_only_flag
    /\ h264_last.on_entry
    /\ h264_last.slice_header_info.ok
    /\ h264_last.slice_header_info.field_pic_flag

\* delta_pic_order_cnt_bottom is taken for the bits after it: the header of
\* a well-formed slice is refused or not, by what the flag held.
C39_PathDependsOnEntrySeen ==
    /\ h264_last.op = "at_h264_get_full_slice_header_info"
    /\ h264_last.fields.frame_mbs_only_flag
    /\ h264_last.fields.pic_order_present_flag
    /\ h264_last.fields.pic_order_cnt_type = 0
    /\ FullSliceHeaderInfoFrom(FALSE).ok
    /\ ~FullSliceHeaderInfoFrom(TRUE).ok

(***************************************************************************)
(* C40: the zero bits that an Exp-Golomb code may start with               *)
(***************************************************************************)
\* C40: read_uev_bits bounds the count of leading zero bits at 23: whatever
\* the bits of the input, it never asks read_un_bits for more than 24 bits,
\* and it never returns a value for a code that starts with 23 zero bits or
\* more.
C40_LeadingZeroBitsBounded ==
    h264_last.op = "read_uev_bits_of_long_code" =>
        /\ h264_last.result.asked <= 24
        /\ h264_last.zero_bits >= 23 => h264_last.result.outcome # "value"

\* What does hold: up to 22 zero bits the value of the code is returned in
\* either build where the suffix bits are there, and the error where they
\* are not.
C40_HoldsUpTo22 ==
    h264_last.op = "read_uev_bits_of_long_code" /\ h264_last.zero_bits <= 22
        => /\ h264_last.result.asked \in {-1, h264_last.zero_bits}
           /\ h264_last.whole
                => /\ h264_last.result.outcome = "value"
                   /\ h264_last.result.asked = h264_last.zero_bits
                   /\ h264_last.result.value
                          = (2 ^ h264_last.zero_bits) - 1 + h264_last.suffix
           /\ ~h264_last.whole => h264_last.result.outcome = "error"

\* With the asserts compiled in no value is returned from 23 zero bits on:
\* the program is ended where the suffix bits are there.
C40_AssertsEndTheProgram ==
    h264_last.op = "read_uev_bits_of_long_code"
    /\ h264_last.asserts /\ h264_last.zero_bits >= 23
        => /\ h264_last.result.outcome # "value"
           /\ h264_last.whole => h264_last.result.outcome = "abort"

\* The two builds differ on nothing else.
C40_BuildsAgreeUpTo22 ==
    h264_last.op = "read_uev_bits_of_long_code" /\ h264_last.zero_bits <= 22
        => h264_last.result
               = read_uev_bits_built(
                     H264BitstreamOn(LongCodeBuffer(h264_last.zero_bits,
                                                    h264_last.suffix,
                                                    h264_last.whole)),
                     ~h264_last.asserts)

\* read_un_bits is asked for 25 bits, in a build with the asserts too.
C40_Asked25Seen ==
    /\ h264_last.op = "read_uev_bits_of_long_code"
    /\ h264_last.asserts
    /\ h264_last.result.asked = 25

\* Without the asserts the value of a code of 23 zero bits is returned.
C40_ValueOf23ZeroBitsSeen ==
    /\ h264_last.op = "read_uev_bits_of_long_code"
    /\ ~h264_last.asserts
    /\ h264_last.zero_bits = 23
    /\ h264_last.result.outcome = "value"
    /\ h264_last.result.value = (2 ^ 23) - 1 + h264_last.suffix

====
